---- MODULE Spec2Model ----
(***************************************************************************)
(* A model of the scientific-container data bridge of NeuroPAC:            *)
(* PreprocessBridge.load_and_transform, its two loaders, the per-pair      *)
(* sample extraction, and PreprocessBridge.filter_by_selected_classes      *)
(* (features/classification/python/core/preprocess_bridge.py).             *)
(*                                                                         *)
(* Arrays are records [tag, shape, data]: shape is a tuple of extents and  *)
(* data the cells in row-major order.  Cell values are integers; every     *)
(* input the model draws has integral means, so the float32 arithmetic of  *)
(* the code is exact on them.                                              *)
(*                                                                         *)
(* The file is read-only input.  The part of it a step reads is drawn by   *)
(* that step (\E): the reconstruction of a record is a pure function of    *)
(* the file, so a record's content is drawn where the extraction loop      *)
(* first reads it.                                                         *)
(***************************************************************************)
EXTENDS Integers, Sequences, FiniteSets, TLC

\* ------------------------------------------------------------------ bounds

\* Largest number of subjects (records of the struct array) a file holds.
MaxSubjects == 2

\* Largest number of lines a subprocess prints before its output ends.
MaxLines == 2

\* threads the controller creates in one behaviour
MaxStarts == 3

\* Largest number of (subject, condition) pairs of one file that are not
\* well-formed or whose allocation fails.
MaxIrregular == 2

\* Largest number of samples handed to filter_by_selected_classes.
MaxFilterSamples == 2

\* Largest number of samples handed to the normaliser on its own.
MaxNormSamples == 2

\* Largest number of samples whose labels a training driver remaps.
MaxRemapSamples == 3

\* ------------------------------------------------------------- numpy arrays

RECURSIVE Prod(_)
Prod(s) == IF s = <<>> THEN 1 ELSE Head(s) * Prod(Tail(s))

RECURSIVE SumSeq(_)
SumSeq(s) == IF s = <<>> THEN 0 ELSE Head(s) + SumSeq(Tail(s))

Arr(shape, data) == [tag |-> "ndarray", shape |-> shape, data |-> data]

IsArr(v) == v.tag = "ndarray"

\* ndarray.size
Size(a) == Prod(a.shape)

\* ndarray.ndim
Ndim(a) == Len(a.shape)

RECURSIVE DropOnes(_)
DropOnes(s) ==
    IF s = <<>> THEN <<>>
    ELSE IF Head(s) = 1 THEN DropOnes(Tail(s))
    ELSE <<Head(s)>> \o DropOnes(Tail(s))

\* np.squeeze: the axes of extent 1 go, the cells keep their order.
Squeeze(a) == Arr(DropOnes(a.shape), a.data)

\* np.mean(a, axis=0) of an array of rank >= 1 with a non-empty leading axis.
MeanAxis0(a) ==
    LET n    == Head(a.shape)
        rest == Tail(a.shape)
        r    == Prod(rest)
    IN  Arr(rest, [k \in 1..r |->
                     SumSeq([t \in 1..n |-> a.data[(t - 1) * r + k]]) \div n])

\* ------------------------------------------------------------ Python values

None == [tag |-> "None"]

\* scipy's mat_struct (struct_as_record=False): attributes only, no
\* __getitem__, no __len__, no ndim, no dtype.
MatStruct(fields) == [tag |-> "mat_struct", fields |-> fields]

\* MatlabStructElement(data_dict)
MatlabStructElement(fields) == [tag |-> "MatlabStructElement", fields |-> fields]

\* A numpy scalar (the element of a one-element numeric array).
Scalar(x) == [tag |-> "scalar", value |-> x]

\* The empty dict / a struct without fields.
NoFields == [f \in {} |-> None]

\* MatlabStructElement.__getitem__: the value, or KeyError.
MSE_getitem(elem, key) ==
    IF key \in DOMAIN elem.fields
    THEN [raised |-> "no", value |-> elem.fields[key]]
    ELSE [raised |-> "KeyError", value |-> None]

\* MatlabStructElement.get(key, default=None)
MSE_get(elem, key) ==
    IF key \in DOMAIN elem.fields THEN elem.fields[key] ELSE None

\* getattr(obj, name, None) on a mat_struct, an ndarray or a numpy scalar:
\* only a mat_struct carries the fields of the MATLAB struct as attributes.
GetAttrOrNone(obj, name) ==
    IF obj.tag = "mat_struct" /\ name \in DOMAIN obj.fields
    THEN obj.fields[name]
    ELSE None

\* --------------------------------------------------------- bridge tables

\* self.conditions: target (0), standard (1), novelty (2)
conditions == <<"target", "standard", "novelty">>

AnalysisKinds ==
    {"erp", "time_frequency", "spectral", "connectivity", "intertrial_coherence"}

TargetModels == {"eeg_net", "eeg_inception", "riemannian"}

\* The kind-specific top-level key of load_and_transform.
KindKey(analysis_type) ==
    CASE analysis_type = "erp" -> "ERP_data"
      [] analysis_type = "time_frequency" -> "timefreq_data"
      [] analysis_type = "spectral" -> "spectral_data"
      [] analysis_type = "connectivity" -> "coherence_data"
      [] analysis_type = "intertrial_coherence" -> "itc_data"
      [] OTHER -> "data"

\* struct_key without the test on the mapping: a variant that reads the
\* kind-specific key whether or not the mapping has it.
StructKey_KindOnly(analysis_type, keys) == KindKey(analysis_type)

\* struct_key: the kind-specific key when the mapping has it, else 'data'.
StructKey(analysis_type, keys) ==
    IF KindKey(analysis_type) \in keys THEN KindKey(analysis_type) ELSE "data"

\* data_field: the primary field of the analysis kind.
DataField(analysis_type) ==
    CASE analysis_type = "erp" -> "avg"
      [] analysis_type = "time_frequency" -> "powspctrm"
      [] analysis_type = "spectral" -> "fourierspctrm"
      [] analysis_type = "connectivity" -> "cohspctrm"
      [] analysis_type = "intertrial_coherence" -> "itpc"
      [] OTHER -> "data"

\* self.group_mapping, as a function on its fourteen keys.
group_mapping ==
    [k \in {"HC", "Hc", "hc", "CTL", "ctl"} |-> 0] @@
    [k \in {"P", "PD", "pd", "Parkinson", "Parkinsons", "Parkinson's",
            "parkinson", "parkinsons", "parkinson's"} |-> 1]

\* self.group_mapping.get(name, -1)
GroupMappingGet(name) ==
    IF name \in DOMAIN group_mapping THEN group_mapping[name] ELSE -1

\* ------------------------------------------------- per-pair extraction

\* Cells np.isnan / np.isinf recognise: the three non-finite float values.
NaN == 9001
PosInf == 9002
NegInf == 9003

\* nan_to_num with only nan=0.0 given: a variant that leaves the infinities
\* in the sample.
NanToNum_NanOnly(a) ==
    Arr(a.shape, [k \in 1..Len(a.data) |->
                    IF a.data[k] = NaN THEN 0 ELSE a.data[k]])

\* np.nan_to_num(sample, nan=0.0, posinf=0.0, neginf=0.0), applied when the
\* sample holds a NaN or an infinity: finite cells are left as they are.
NanToNum(a) ==
    Arr(a.shape, [k \in 1..Len(a.data) |->
                    IF a.data[k] \in {NaN, PosInf, NegInf} THEN 0 ELSE a.data[k]])

\* The mean np.nanmean takes of the cells of one slice: NaN cells are left
\* out (NaN when none is left), an infinity among the others makes the mean
\* that infinity, and NaN when both signs occur.
NanMean(cells) ==
    LET rest == SelectSeq(cells, LAMBDA x : x # NaN)
        fin  == SelectSeq(rest, LAMBDA x : x \notin {PosInf, NegInf})
        pos  == \E k \in 1..Len(rest) : rest[k] = PosInf
        neg  == \E k \in 1..Len(rest) : rest[k] = NegInf
    IN  IF rest = <<>> \/ (pos /\ neg) THEN NaN
        ELSE IF pos THEN PosInf
        ELSE IF neg THEN NegInf
        ELSE SumSeq(fin) \div Len(fin)

\* np.nanmean(sample, axis=0) of an array of rank >= 1.
NanMeanAxis0(a) ==
    LET n    == Head(a.shape)
        rest == Tail(a.shape)
        r    == Prod(rest)
    IN  Arr(rest, [k \in 1..r |->
                     NanMean([t \in 1..n |-> a.data[(t - 1) * r + k]])])

\* np.nanmean(sample, axis=(2, 3)) of a rank-4 array.
MeanAxes23(a) ==
    LET d1 == a.shape[1]
        d2 == a.shape[2]
        r  == a.shape[3] * a.shape[4]
    IN  Arr(<<d1, d2>>, [k \in 1..(d1 * d2) |->
                NanMean([t \in 1..r |-> a.data[(k - 1) * r + t]])])

No(v) == [raised |-> "no", value |-> v]

Raised(exc) == [raised |-> exc, value |-> None]

\* The pair's handler had it not listed KeyError: a variant under which an
\* absent condition record would end its subject's remaining conditions.
PairCaught_NoKeyError == {"ValueError", "IndexError", "TypeError", "AttributeError"}

\* The exception classes the handler around one (subject, condition) pair
\* catches; every other Exception reaches the handler around the subject.
PairCaught == {"KeyError", "ValueError", "IndexError", "TypeError", "AttributeError"}

\* cond_struct of a record: record.get(cond) for a MatlabStructElement,
\* getattr(record, cond, None) otherwise (record[cond] on a mat_struct raises
\* TypeError and leaves None); a one-element ndarray is unwrapped to its element.
CondStructOf(record, cond) ==
    LET cs == IF record.tag = "MatlabStructElement"
              THEN MSE_get(record, cond)
              ELSE GetAttrOrNone(record, cond)
    IN  IF IsArr(cs) /\ Size(cs) = 1 THEN Scalar(cs.data[1]) ELSE cs

\* raw_data: cond_struct[data_field] for a MatlabStructElement, the array
\* itself for an ndarray, getattr(cond_struct, data_field, None) otherwise.
PrimaryOf(cond_struct, data_field) ==
    IF cond_struct.tag = "MatlabStructElement"
    THEN MSE_getitem(cond_struct, data_field)
    ELSE IF IsArr(cond_struct) THEN No(cond_struct)
    ELSE No(GetAttrOrNone(cond_struct, data_field))

\* trial_data: cond_struct.get('trial') or getattr(cond_struct, 'trial', None)
TrialOf(cond_struct) ==
    IF cond_struct.tag = "MatlabStructElement"
    THEN MSE_get(cond_struct, "trial")
    ELSE GetAttrOrNone(cond_struct, "trial")

\* The fallback of a missing or empty primary field:
\* np.mean(np.array(trial_data, dtype=np.float32), axis=0), or KeyError
\* when there is no trial field.  allocOk: np.array could allocate.
TrialFallback(cond_struct, allocOk) ==
    LET t == TrialOf(cond_struct)
    IN  IF t = None THEN Raised("KeyError")
        ELSE IF ~allocOk THEN Raised("MemoryError")
        ELSE IF Ndim(t) = 0 THEN Raised("ValueError")
        ELSE No(MeanAxis0(t))

\* dimord of the condition record: str, None, or (reference encoding) the
\* array of character codes.
DimordOf(cond_struct) ==
    IF cond_struct.tag = "MatlabStructElement"
    THEN MSE_get(cond_struct, "dimord")
    ELSE GetAttrOrNone(cond_struct, "dimord")

\* The spectral reduction of a squeezed sample.  Rank 4: mean over axis 0.
\* Rank 3: `dimord or ""` is evaluated first (the truth value of an array of
\* more than one element raises ValueError; a one-element array is taken as
\* the string and has no startswith), then both branches take the mean over
\* axis 0.  Other ranks: squeezed once more.
SpectralReduce(sample, dimord) ==
    IF Ndim(sample) = 4 THEN No(NanMeanAxis0(sample))
    ELSE IF Ndim(sample) = 3
         THEN IF IsArr(dimord) /\ Size(dimord) > 1 THEN Raised("ValueError")
              ELSE IF IsArr(dimord) /\ Size(dimord) = 1 /\ dimord.data[1] # 0
                   THEN Raised("AttributeError")
              ELSE No(NanMeanAxis0(sample))
    ELSE No(Squeeze(sample))

Appended(sample) == [kind |-> "append", exc |-> "no", sample |-> sample]

\* An exception raised inside the pair's try block: the pair's handler skips
\* the pair for the classes it lists, any other class leaves the block.
Raise(exc) ==
    [kind |-> IF exc \in PairCaught THEN "skip" ELSE "abort",
     exc |-> exc, sample |-> None]

\* `continue` on an empty sample.
Continue == [kind |-> "continue", exc |-> "no", sample |-> None]

\* The body of the loop over self.conditions for one record and condition.
ExtractPair(record, cond, analysis_type, target_model, allocOk) ==
    LET data_field == DataField(analysis_type)
        cs  == CondStructOf(record, cond)
        p   == PrimaryOf(cs, data_field)
        r1  == IF p.value = None THEN TrialFallback(cs, allocOk) ELSE p
        r2  == IF IsArr(r1.value) /\ Size(r1.value) = 0
               THEN TrialFallback(cs, allocOk) ELSE r1
        sample == Squeeze(r2.value)
        s1  == IF analysis_type = "spectral"
               THEN SpectralReduce(sample, DimordOf(cs)) ELSE No(sample)
        s2  == IF analysis_type = "connectivity" /\ Ndim(s1.value) = 4
                  /\ target_model = "riemannian"
               THEN MeanAxes23(s1.value) ELSE s1.value
    IN  IF cs = None THEN Raise("KeyError")
        ELSE IF p.raised # "no" THEN Raise(p.raised)
        ELSE IF r1.raised # "no" THEN Raise(r1.raised)
        ELSE IF r2.raised # "no" THEN Raise(r2.raised)
        ELSE IF ~allocOk THEN Raise("MemoryError")
        ELSE IF Size(sample) = 0 THEN Continue
        ELSE IF s1.raised # "no" THEN Raise(s1.raised)
        ELSE Appended(NanToNum(s2))

\* ------------------------------------------- the reference-based container

\* An HDF5 dataset of numbers: np.array(dataset) is `value`.
H5Data(arr) == [tag |-> "h5dataset", isref |-> FALSE, value |-> arr]

\* An HDF5 dataset of object references: np.array(dataset) is an ndarray of
\* dtype h5py.ref_dtype with this shape, refs its cells in row-major order.
H5Refs(shape, refs) ==
    [tag |-> "h5dataset", isref |-> TRUE,
     value |-> [tag |-> "refarray", shape |-> shape, data |-> refs]]

\* An HDF5 group: its children in the order keys() iterates them.
H5Group(children) == [tag |-> "h5group", children |-> children]

Child(name, obj) == [name |-> name, obj |-> obj]

\* k.startswith('#'): of the names the model uses only MATLAB's '#refs#' and
\* '#subsystem#' groups start with '#'.
StartsWithHash(name) == name \in {"#refs#", "#subsystem#"}

\* keys = [k for k in h5_obj.keys() if not k.startswith('#')]
RECURSIVE NonHashChildren(_)
NonHashChildren(children) ==
    IF children = <<>> THEN <<>>
    ELSE IF StartsWithHash(Head(children).name)
         THEN NonHashChildren(Tail(children))
         ELSE <<Head(children)>> \o NonHashChildren(Tail(children))

\* _deref: self._h5_file[ref]; h5py raises ValueError on a reference that
\* names no object of the file.
Deref(h5, ref) == IF ref \in DOMAIN h5 THEN No(h5[ref]) ELSE Raised("ValueError")

\* data_fields of _convert_condition_struct
data_fields ==
    {"powspctrm", "avg", "fourierspctrm", "cohspctrm", "itpc",
     "trial", "time", "freq", "label", "dimord"}

\* The names _convert_condition_struct leaves out.
skipped_fields == {"cfg", "hdr", "grad", "elec"}

\* `key in data_fields or key not in ['cfg', 'hdr', 'grad', 'elec']`
FieldIsProcessed(key) == key \in data_fields \/ key \notin skipped_fields

\* _extract_data_from_group: the first child dataset that holds numbers.
RECURSIVE extract_data_from_group(_)
extract_data_from_group(children) ==
    IF children = <<>> THEN None
    ELSE LET ch == Head(children)
         IN  IF ~StartsWithHash(ch.name) /\ ch.obj.tag = "h5dataset" /\ ~ch.obj.isref
             THEN ch.obj.value
             ELSE extract_data_from_group(Tail(children))

\* One child of a condition group: [raised, keep, value]; keep says whether
\* result_dict gets an entry for the child's name.
ConvertChild(h5, key, child) ==
    IF ~FieldIsProcessed(key) THEN [raised |-> "no", keep |-> FALSE, value |-> None]
    ELSE IF child.tag = "h5dataset"
    THEN IF child.isref
         THEN IF Size(child.value) = 1
              THEN LET d == Deref(h5, child.value.data[1])
                   IN  IF d.raised # "no"
                       THEN [raised |-> d.raised, keep |-> FALSE, value |-> None]
                       ELSE IF d.value.tag = "h5dataset"
                       THEN [raised |-> "no", keep |-> TRUE, value |-> d.value.value]
                       ELSE [raised |-> "no", keep |-> FALSE, value |-> None]
              ELSE [raised |-> "no", keep |-> TRUE, value |-> child.value]
         ELSE [raised |-> "no", keep |-> TRUE, value |-> child.value]
    ELSE IF key \in data_fields
         THEN LET nested == extract_data_from_group(child.children)
              IN  [raised |-> "no", keep |-> nested # None, value |-> nested]
         ELSE [raised |-> "no", keep |-> FALSE, value |-> None]

\* result_dict of a condition group, built child by child; the first child
\* whose dereference raises ends the conversion.
RECURSIVE ConvertChildren(_, _, _)
ConvertChildren(h5, children, acc) ==
    IF children = <<>> THEN No(acc)
    ELSE LET ch == Head(children)
             r  == ConvertChild(h5, ch.name, ch.obj)
         IN  IF r.raised # "no" THEN Raised(r.raised)
             ELSE ConvertChildren(h5, Tail(children),
                                  IF r.keep THEN acc @@ (ch.name :> r.value) ELSE acc)

\* _convert_condition_struct.  A dataset holding a single reference is
\* followed (the recursive call); depth counts the Python frames in use and
\* the interpreter raises RecursionError at its limit.
RECURSIVE convert_condition_struct(_, _, _)
convert_condition_struct(h5, h5_obj, depth) ==
    IF h5_obj.tag = "h5dataset"
    THEN IF h5_obj.isref /\ Size(h5_obj.value) = 1
         THEN IF depth = 0 THEN Raised("RecursionError")
              ELSE LET d == Deref(h5, h5_obj.value.data[1])
                   IN  IF d.raised # "no" THEN Raised(d.raised)
                       ELSE convert_condition_struct(h5, d.value, depth - 1)
         ELSE No(h5_obj.value)
    ELSE LET r == ConvertChildren(h5, NonHashChildren(h5_obj.children), NoFields)
         IN  IF r.raised # "no" THEN r
             ELSE IF DOMAIN r.value = {} THEN No(None)
             ELSE No(MatlabStructElement(r.value))

\* The frames Python allows the recursive reconstruction before it raises
\* RecursionError (sys.getrecursionlimit(), cut down to a model bound).
RecursionLimit == 3

\* One element of the struct array (the inner loop of
\* _convert_mat73_struct_array): every field's reference of that element is
\* dereferenced and converted.  fields: the fields in key order, each with
\* the reference its table holds for the element.
RECURSIVE ConvertElement(_, _, _)
ConvertElement(h5, fields, acc) ==
    IF fields = <<>> THEN No(MatlabStructElement(acc))
    ELSE LET f == Head(fields)
             d == Deref(h5, f.ref)
             v == convert_condition_struct(h5, d.value, RecursionLimit)
         IN  IF d.raised # "no" THEN Raised(d.raised)
             ELSE IF v.raised # "no" THEN Raised(v.raised)
             ELSE ConvertElement(h5, Tail(fields), acc @@ (f.name :> v.value))

\* ------------------------------------------------ shape normalisation

Max2(a, b) == IF a >= b THEN a ELSE b

RECURSIVE MaxOf(_)
MaxOf(s) == IF Len(s) = 1 THEN s[1] ELSE Max2(Head(s), MaxOf(Tail(s)))

\* The multi-index (0-based) of the 0-based flat index k in row-major order.
RECURSIVE Unravel(_, _)
Unravel(k, shape) ==
    IF shape = <<>> THEN <<>>
    ELSE LET r == Prod(Tail(shape))
         IN  <<k \div r>> \o Unravel(k % r, Tail(shape))

\* The 0-based flat index of multi-index m.
RECURSIVE Ravel(_, _)
Ravel(m, shape) ==
    IF shape = <<>> THEN 0
    ELSE Head(m) * Prod(Tail(shape)) + Ravel(Tail(m), Tail(shape))

\* The expansion had it used axis=0: a variant that puts the new axes in
\* front of the sample's own.
RECURSIVE ExpandTo_Leading(_, _)
ExpandTo_Leading(a, max_ndim) ==
    IF Ndim(a) >= max_ndim THEN a
    ELSE ExpandTo_Leading(Arr(<<1>> \o a.shape, a.data), max_ndim)

\* np.expand_dims(arr, axis=-1) until the rank is max_ndim.
RECURSIVE ExpandTo(_, _)
ExpandTo(a, max_ndim) ==
    IF Ndim(a) >= max_ndim THEN a
    ELSE ExpandTo(Arr(a.shape \o <<1>>, a.data), max_ndim)

\* np.pad(arr, [(0, max_shape[d] - arr.shape[d])], mode='constant')
PadTo(a, max_shape) ==
    Arr(max_shape,
        [k \in 1..Prod(max_shape) |->
            LET m == Unravel(k - 1, max_shape)
            IN  IF \A d \in 1..Len(max_shape) : m[d] < a.shape[d]
                THEN a.data[Ravel(m, a.shape) + 1]
                ELSE 0])

RECURSIVE ConcatData(_)
ConcatData(arrs) ==
    IF arrs = <<>> THEN <<>> ELSE Head(arrs).data \o ConcatData(Tail(arrs))

\* The normaliser of load_and_transform: ranks extended with trailing
\* size-1 axes, every sample zero-padded to the per-axis maximum, then
\* np.stack(padded_samples, axis=0).  When every sample has rank 0 the
\* pad_width list is empty, np.asarray([]) is a float array and np.pad
\* raises TypeError ('`pad_width` must be of integral type').
NormalizeAndStack(all_samples) ==
    LET n          == Len(all_samples)
        max_ndim   == MaxOf([k \in 1..n |-> Ndim(all_samples[k])])
        normalized == [k \in 1..n |-> ExpandTo(all_samples[k], max_ndim)]
        max_shape  == [d \in 1..max_ndim |->
                          MaxOf([k \in 1..n |-> normalized[k].shape[d]])]
        padded     == [k \in 1..n |-> PadTo(normalized[k], max_shape)]
    IN  IF max_ndim = 0 THEN Raised("TypeError")
        ELSE No(Arr(<<n>> \o max_shape, ConcatData(padded)))

\* _apply_transform had it reshaped without the rank test: a variant that
\* returns a tensor for ERP batches of rank below 3 too.
apply_transform_NoRankTest(data, analysis_type, target_model) ==
    IF analysis_type = "erp" /\ target_model \in {"eeg_net", "eeg_inception"}
    THEN No(Arr(<<data.shape[1], 1, data.shape[2],
                  Size(data) \div (data.shape[1] * data.shape[2])>>,
                data.data))
    ELSE No(data)

\* _apply_transform: ERP data for eeg_net / eeg_inception is reshaped to
\* (n, 1, shape[1], -1) and needs rank >= 3; every other pair is returned
\* as it is.
apply_transform(data, analysis_type, target_model) ==
    IF analysis_type = "erp" /\ target_model \in {"eeg_net", "eeg_inception"}
    THEN IF Ndim(data) < 3 THEN Raised("ValueError")
         ELSE No(Arr(<<data.shape[1], 1, data.shape[2],
                       Size(data) \div (data.shape[1] * data.shape[2])>>,
                     data.data))
    ELSE No(data)

\* ------------------------------------------------------ the struct array

\* The calls nested below _convert_mat73_struct_array while one object is
\* converted: _convert_condition_struct itself, one more for every single
\* reference it follows, and _extract_data_from_group for a nested group of
\* a data field.  children: the children a group's loop reaches.
RECURSIVE ChildrenDepth(_, _)
ChildrenDepth(h5, children) ==
    IF children = <<>> THEN 0
    ELSE LET ch == Head(children)
             r  == ConvertChild(h5, ch.name, ch.obj)
         IN  IF r.raised # "no" THEN 0
             ELSE Max2(IF ch.obj.tag = "h5group" /\ ch.name \in data_fields
                       THEN 1 ELSE 0,
                       ChildrenDepth(h5, Tail(children)))

RECURSIVE ConvertDepth(_, _, _)
ConvertDepth(h5, h5_obj, depth) ==
    IF h5_obj.tag = "h5dataset"
    THEN IF h5_obj.isref /\ Size(h5_obj.value) = 1 /\ depth > 0
         THEN LET d == Deref(h5, h5_obj.value.data[1])
              IN  IF d.raised # "no" THEN 1
                  ELSE 1 + ConvertDepth(h5, d.value, depth - 1)
         ELSE 1
    ELSE 1 + ChildrenDepth(h5, NonHashChildren(h5_obj.children))

\* num_elements with the smaller extent: a variant that takes a 1xN table
\* for a table of one element.
NumElements_Min(shape) == IF shape[1] <= shape[2] THEN shape[1] ELSE shape[2]

\* num_elements = max(data.shape) of the first field's two-dimensional table.
NumElements(shape) == Max2(shape[1], shape[2])

\* field_refs[0, idx] when field_refs.shape[0] == 1, else field_refs[idx, 0];
\* numpy raises IndexError on a table that is not two-dimensional and on an
\* index outside it.
FieldRef(field_refs, idx) ==
    IF Len(field_refs.shape) # 2 THEN Raised("IndexError")
    ELSE IF field_refs.shape[1] = 1
    THEN IF idx < field_refs.shape[2]
         THEN No(field_refs.data[idx + 1]) ELSE Raised("IndexError")
    ELSE IF idx < field_refs.shape[1] /\ field_refs.shape[2] >= 1
         THEN No(field_refs.data[idx * field_refs.shape[2] + 1])
         ELSE Raised("IndexError")

\* One pass of `for idx in range(num_elements)`: elem_dict is filled field
\* by field, each field's reference of the element being indexed,
\* dereferenced and converted; [raised, value, depth], depth being the
\* deepest nesting of calls so far.
RECURSIVE StructElement(_, _, _, _, _)
StructElement(h5, fields, idx, acc, dep) ==
    IF fields = <<>>
    THEN [raised |-> "no", value |-> MatlabStructElement(acc), depth |-> dep]
    ELSE LET f == Head(fields)
             r == FieldRef(f.obj.value, idx)
             d == Deref(h5, r.value)
             v == convert_condition_struct(h5, d.value, RecursionLimit)
             n == Max2(dep, ConvertDepth(h5, d.value, RecursionLimit))
         IN  IF r.raised # "no"
             THEN [raised |-> r.raised, value |-> None, depth |-> dep]
             ELSE IF d.raised # "no"
             THEN [raised |-> d.raised, value |-> None, depth |-> dep]
             ELSE IF v.raised # "no"
             THEN [raised |-> v.raised, value |-> None, depth |-> n]
             ELSE StructElement(h5, Tail(fields), idx,
                                acc @@ (f.name :> v.value), n)

\* The element loop of _convert_mat73_struct_array: struct_array[idx] for
\* idx = 0 .. num_elements - 1.
RECURSIVE StructElements(_, _, _, _, _, _)
StructElements(h5, fields, num_elements, idx, acc, dep) ==
    IF idx = num_elements
    THEN [raised |-> "no", value |-> Arr(<<num_elements>>, acc), depth |-> dep]
    ELSE LET e == StructElement(h5, fields, idx, NoFields, dep)
         IN  IF e.raised # "no" THEN e
             ELSE StructElements(h5, fields, num_elements, idx + 1,
                                 Append(acc, e.value), e.depth)

\* The fallback of _convert_mat73_struct_array: the dataset children of the
\* group as a simple struct.
RECURSIVE SimpleStruct(_, _)
SimpleStruct(children, acc) ==
    IF children = <<>> THEN acc
    ELSE LET ch == Head(children)
         IN  SimpleStruct(Tail(children),
                          IF ch.obj.tag = "h5dataset"
                          THEN acc @@ (ch.name :> ch.obj.value) ELSE acc)

\* _convert_mat73_struct_array: [raised, value, depth].
convert_mat73_struct_array(h5, h5_obj) ==
    IF h5_obj.tag = "h5dataset"
    THEN [raised |-> "no", value |-> h5_obj.value, depth |-> 0]
    ELSE LET keys == NonHashChildren(h5_obj.children)
         IN  IF keys = <<>>
             THEN [raised |-> "no", value |-> None, depth |-> 0]
             ELSE IF /\ keys[1].obj.tag = "h5dataset"
                     /\ keys[1].obj.isref
                     /\ Len(keys[1].obj.value.shape) = 2
             THEN StructElements(h5, keys,
                                 NumElements(keys[1].obj.value.shape),
                                 0, <<>>, 0)
             ELSE LET result_dict == SimpleStruct(keys, NoFields)
                  IN  [raised |-> "no",
                       value |-> IF DOMAIN result_dict = {} THEN None
                                 ELSE MatlabStructElement(result_dict),
                       depth |-> 0]

\* ndim and shape of raw_records as load_and_transform takes them: an
\* ndarray's own, a MatlabStructElement's 0 and (), and 1 and (1,) for a
\* value without ndim.
RawNdim(raw_records) ==
    CASE raw_records.tag = "ndarray" -> Len(raw_records.shape)
      [] raw_records.tag = "MatlabStructElement" -> 0
      [] OTHER -> 1

RawShape(raw_records) ==
    CASE raw_records.tag = "ndarray" -> raw_records.shape
      [] raw_records.tag = "MatlabStructElement" -> <<>>
      [] OTHER -> <<1>>

\* num_subjects: the long side of a 1xN or Nx1 array, len() of a
\* one-dimensional one (TypeError on a zero-dimensional one), and 1 for a
\* value without __len__.
NumSubjectsOf(raw_records) ==
    LET ndim  == RawNdim(raw_records)
        shape == RawShape(raw_records)
    IN  IF ndim > 1
        THEN No(IF shape[1] = 1 THEN shape[2] ELSE shape[1])
        ELSE IF raw_records.tag = "ndarray"
             THEN IF ndim = 0 THEN Raised("TypeError") ELSE No(shape[1])
             ELSE No(1)

\* The index load_and_transform reads for subject i, as the 0-based
\* position in the array's cells in row-major order: raw_records[0, i],
\* raw_records[i, 0] or raw_records[i].
SubjectPosition(raw_records, i) ==
    LET ndim  == RawNdim(raw_records)
        shape == RawShape(raw_records)
    IN  IF ndim > 1
        THEN IF shape[1] = 1 THEN i ELSE i * Prod(Tail(shape))
        ELSE i

\* ------------------------------------------------------ the file's content

\* The primary array a well-formed condition record of each analysis kind
\* holds: channels x time for erp, a leading trial/taper axis for spectral,
\* channels x channels x freq x time for connectivity.
PrimaryData(analysis_type) ==
    CASE analysis_type = "erp" -> Arr(<<2, 2>>, <<1, 2, 3, 4>>)
      [] analysis_type = "connectivity" ->
             Arr(<<2, 2, 2, 2>>, <<1, 3, 5, 7, 2, 4, 6, 8, 3, 5, 7, 9, 4, 6, 8, 10>>)
      [] OTHER -> Arr(<<2, 2, 2>>, <<1, 2, 3, 4, 5, 6, 7, 8>>)

\* The raw trials of a condition record: trials x channels x time.
TrialData == Arr(<<2, 2, 2>>, <<1, 2, 3, 4, 3, 4, 5, 6>>)

\* An empty MATLAB array.
EmptyData == Arr(<<0, 0>>, <<>>)

\* The character codes of 'rpt_chan_freq', as the reference encoding stores
\* a char row.
DimordCodes ==
    Arr(<<13, 1>>, <<114, 112, 116, 95, 99, 104, 97, 110, 95, 102, 114, 101, 113>>)

Str(text) == [tag |-> "str", text |-> text]

\* What a file holds for one (subject, condition) pair: no such field, or a
\* condition record with its primary field (data, empty or missing), with or
\* without raw trials and a dimension-order string (drawn for the spectral
\* kind, the only one whose extraction evaluates the string).
CondContents(analysis_type) ==
    {[kind |-> "absent", primary |-> "missing", trial |-> FALSE, dimord |-> FALSE]}
    \cup {[kind |-> "struct", primary |-> p, trial |-> t, dimord |-> FALSE] :
            p \in {"missing", "empty"}, t \in BOOLEAN}
    \cup {[kind |-> "struct", primary |-> "data", trial |-> FALSE, dimord |-> d] :
            d \in (IF analysis_type = "spectral" THEN BOOLEAN ELSE {FALSE})}

IsWellFormed(content) == content.kind = "struct" /\ content.primary = "data"

\* The names of the fields the condition record has.
CondFieldNames(content, data_field) ==
    (IF content.primary = "missing" THEN {} ELSE {data_field})
    \cup (IF content.trial THEN {"trial"} ELSE {})
    \cup (IF content.dimord THEN {"dimord"} ELSE {})

CondFieldArray(content, name, analysis_type) ==
    IF name = "trial" THEN TrialData
    ELSE IF name = "dimord" THEN DimordCodes
    ELSE IF content.primary = "empty" THEN EmptyData
    ELSE PrimaryData(analysis_type)

\* The dense reader's view (sio.loadmat with struct_as_record=False,
\* squeeze_me=True) of the condition record: a mat_struct whose attributes
\* are arrays, the dimension-order string a str.
DenseCond(content, analysis_type) ==
    MatStruct([name \in CondFieldNames(content, DataField(analysis_type)) |->
                 IF name = "dimord" THEN Str("rpt_chan_freq")
                 ELSE CondFieldArray(content, name, analysis_type)])

\* The record the dense reader yields, as far as one condition goes.
DenseRecord(cond, content, analysis_type) ==
    MatStruct(IF content.kind = "absent" THEN NoFields
              ELSE (cond :> DenseCond(content, analysis_type)))

\* The same condition record in the reference-based container: a group
\* whose children are datasets (strings as character codes).
H5Cond(content, analysis_type) ==
    LET df == DataField(analysis_type)
        names == (IF content.primary = "missing" THEN <<>> ELSE <<df>>)
                 \o (IF content.dimord THEN <<"dimord">> ELSE <<>>)
                 \o (IF content.trial THEN <<"trial">> ELSE <<>>)
    IN  H5Group([k \in 1..Len(names) |->
                   Child(names[k],
                         H5Data(CondFieldArray(content, names[k], analysis_type)))])

\* The record _convert_mat73_struct_array rebuilds for the element, as far as
\* one condition goes: the field's reference resolves to the group above.
RefRecord(cond, content, analysis_type) ==
    ConvertElement((1 :> H5Cond(content, analysis_type)),
                   IF content.kind = "absent" THEN <<>>
                   ELSE <<[name |-> cond, ref |-> 1]>>,
                   NoFields).value

RecordFor(ldr, cond, content, analysis_type) ==
    IF ldr = "dense" THEN DenseRecord(cond, content, analysis_type)
    ELSE RefRecord(cond, content, analysis_type)

\* What one element of the struct array looks like to the reference-based
\* loader: well-formed, a field whose reference names no object, or a field
\* that is a single-reference dataset referring to itself.
ElementDraws == {"ok", "badref", "cycle"}

ElementFile(draw) ==
    CASE draw = "ok" ->
            [h5 |-> (1 :> H5Group(<<Child("avg", H5Data(PrimaryData("erp")))>>)),
             fields |-> <<[name |-> "target", ref |-> 1]>>]
      [] draw = "badref" ->
            [h5 |-> (1 :> H5Group(<<Child("avg", H5Data(PrimaryData("erp")))>>)),
             fields |-> <<[name |-> "target", ref |-> 2]>>]
      [] draw = "cycle" ->
            [h5 |-> (1 :> H5Refs(<<1, 1>>, <<1>>)),
             fields |-> <<[name |-> "target", ref |-> 1]>>]

\* The dense reader's errors: class and message.
DenseMessages ==
    {"Please use HDF reader for matlab v7.3 files, e.g. h5py",
     "Unknown mat file type, version 0, 0",
     "[Errno 13] Permission denied: 'D:/matlab v7.3/erp_output.mat'",
     "MATLAB V7.3 FILE: USE THE HDF READER"}

DenseErrorClasses == {"NotImplementedError", "ValueError", "OSError"}

NoError == [exc |-> "no", msg |-> ""]

DenseOutcomes ==
    {NoError} \cup {[exc |-> e, msg |-> m] : e \in DenseErrorClasses, m \in DenseMessages}

\* "HDF reader" in error_msg
ContainsHDFReader(msg) ==
    msg = "Please use HDF reader for matlab v7.3 files, e.g. h5py"

\* "matlab v7.3" in error_msg.lower()
LowerContainsMatlabV73(msg) ==
    msg \in {"Please use HDF reader for matlab v7.3 files, e.g. h5py",
             "[Errno 13] Permission denied: 'D:/matlab v7.3/erp_output.mat'",
             "MATLAB V7.3 FILE: USE THE HDF READER"}

HasV73Signature(msg) == ContainsHDFReader(msg) \/ LowerContainsMatlabV73(msg)

\* except (ValueError, NotImplementedError)
DenseCaught == {"ValueError", "NotImplementedError"}

\* The fallback had the signature test not been tied to the except clause's
\* classes: a variant that falls back on any error carrying the signature.
FallsBack_AnyClass(err) == err.exc # "no" /\ HasV73Signature(err.msg)

\* Whether load_and_transform falls back to _load_mat_v73 on the error.
FallsBack(err) == err.exc \in DenseCaught /\ HasV73Signature(err.msg)

\* The top-level key sets a loaded mapping may have.
KeySets(analysis_type) ==
    {{KindKey(analysis_type)}, {"data"}, {KindKey(analysis_type), "data"}, {"other"}}

\* The (analysis_type, target_model) arguments the calls are drawn from: every
\* analysis kind, and for erp and connectivity both sides of the branch on
\* the target model.
Configs ==
    {<<"erp", "eeg_net">>, <<"erp", "riemannian">>,
     <<"time_frequency", "eeg_inception">>, <<"spectral", "riemannian">>,
     <<"connectivity", "riemannian">>, <<"connectivity", "eeg_net">>,
     <<"intertrial_coherence", "eeg_inception">>}

\* labels.labels, the list of the subjects' group names.
GroupLists == {<<"HC", "PD">>, <<"XX">>}

\* The calls the model starts from: every configuration with every list
\* above, and one call whose list spells the groups in another letter case
\* than the table's keys.
LoadInputs ==
    {<<cfg, gl>> : cfg \in Configs, gl \in GroupLists}
    \cup {<<<<"erp", "riemannian">>, <<"PARKINSON", "Ctl">>>>}

\* ---------------------------------------------------- load_and_transform

VARIABLES
    pc,               \* where the call is
    analysis_type,    \* argument
    target_model,     \* argument
    group_list,       \* labels.labels
    nsub,             \* the number of records the file's struct array has
    dense_err,        \* the exception `e` of the dense reader, while handled
    loader,           \* the reader whose mapping is used: none, dense, v73
    h5_file,          \* self._h5_file: "None" or "handle"
    handle,           \* the h5py.File of this call: unopened, open, closed
    idx,              \* the element _convert_mat73_struct_array is building
    raw_kind,         \* raw_records: a bare mat_struct or a 1-D object array
    num_subjects,
    i,                \* subject index of the loop
    c,                \* 1-based position in self.conditions
    group_val,
    dataset_name,
    all_samples,
    condition_labels,
    group_labels,
    subject_ids,
    dataset_names,
    status,           \* running, returned, raised
    exc,              \* the exception class that left the call
    X,                \* the returned tensor
    cur,              \* history: the content read for the last pair, its outcome
    irregular,        \* history: the pairs read that were not well-formed
                      \* or could not be allocated
    f_pc,             \* filter_by_selected_classes: in, out
    f_in,             \* its arguments
    f_out,            \* its result
    u_pc,             \* a call of one of the bridge's or drivers' helpers
    u_in,             \* its arguments
    u_out             \* its result

loadVars ==
    <<pc, analysis_type, target_model, group_list, nsub, dense_err, loader,
      h5_file, handle, idx, raw_kind, num_subjects, i, c, group_val,
      dataset_name, all_samples, condition_labels, group_labels, subject_ids,
      dataset_names, status, exc, X, cur, irregular>>

filterVars == <<f_pc, f_in, f_out>>

unitVars == <<u_pc, u_in, u_out>>

vars == <<loadVars, filterVars, unitVars>>

accVars == <<all_samples, condition_labels, group_labels, subject_ids, dataset_names>>

NoCur ==
    [content |-> [kind |-> "none", primary |-> "missing", trial |-> FALSE,
                  dimord |-> FALSE],
     i |-> 0, c |-> 1, kind |-> "none", exc |-> "no"]

FilterIdle == f_pc = "idle" /\ f_in = <<>> /\ f_out = <<>>

UnitIdle == u_pc = "idle" /\ u_in = <<>> /\ u_out = <<>>

\* A PreprocessBridge after __init__ and a call of load_and_transform about
\* to start on a file of nsub records.
Init ==
    /\ pc = "start"
    /\ \E inp \in LoadInputs :
         /\ analysis_type = inp[1][1]
         /\ target_model = inp[1][2]
         /\ group_list = inp[2]
    /\ nsub \in 1..MaxSubjects
    /\ dense_err = NoError
    /\ loader = "none"
    /\ h5_file = "None"
    /\ handle = "unopened"
    /\ idx = 0
    /\ raw_kind = "none"
    /\ num_subjects = 0
    /\ i = 0
    /\ c = 1
    /\ group_val = -1
    /\ dataset_name = <<"S", 0>>
    /\ all_samples = <<>>
    /\ condition_labels = <<>>
    /\ group_labels = <<>>
    /\ subject_ids = <<>>
    /\ dataset_names = <<>>
    /\ status = "running"
    /\ exc = "no"
    /\ X = None
    /\ cur = NoCur
    /\ irregular = 0
    /\ FilterIdle
    /\ UnitIdle

\* The call ends with exception class e.
Fail(e) == pc' = "end" /\ status' = "raised" /\ exc' = e

\* os.path.exists(full_path), else FileNotFoundError.
CheckExists ==
    /\ pc = "start"
    /\ \E exists \in BOOLEAN :
         IF exists
         THEN pc' = "loadmat" /\ UNCHANGED <<status, exc>>
         ELSE Fail("FileNotFoundError")
    /\ UNCHANGED <<analysis_type, target_model, group_list, nsub, dense_err,
                   loader, h5_file, handle, idx, raw_kind, num_subjects, i, c,
                   group_val, dataset_name, accVars, X, cur, irregular, filterVars, unitVars>>

\* sio.loadmat(full_path, struct_as_record=False, squeeze_me=True) and the
\* except clause around it.  squeeze_me turns a 1x1 struct array into the
\* bare mat_struct and a 1xN one into a 1-D object array.
DenseRead ==
    /\ pc = "loadmat"
    /\ \E out \in DenseOutcomes :
         /\ dense_err' = out
         /\ IF out.exc = "no"
            THEN /\ pc' = "select"
                 /\ loader' = "dense"
                 /\ raw_kind' = IF nsub = 1 THEN "mat_struct" ELSE "array"
                 /\ UNCHANGED <<status, exc>>
            ELSE IF FallsBack(out)
            THEN /\ pc' = "v73_open"
                 /\ UNCHANGED <<loader, raw_kind, status, exc>>
            ELSE /\ Fail(out.exc)
                 /\ UNCHANGED <<loader, raw_kind>>
    /\ UNCHANGED <<analysis_type, target_model, group_list, nsub, h5_file,
                   handle, idx, num_subjects, i, c, group_val, dataset_name,
                   accVars, X, cur, irregular, filterVars, unitVars>>

\* The except clause had it re-raised without closing: a variant under which
\* a failed reconstruction leaks the handle.
CloseOnError_NoClose(hf, hd) == [h5_file |-> hf, handle |-> hd]

\* The except clause of _load_mat_v73: an open self._h5_file is closed and
\* cleared before the exception is re-raised.
CloseOnError(hf, hd) ==
    IF hf # "None"
    THEN [h5_file |-> "None", handle |-> "closed"]
    ELSE [h5_file |-> hf, handle |-> hd]

\* _load_mat_v73: self._h5_file = h5py.File(mat_path, 'r').  When the file
\* cannot be opened the except clause finds self._h5_file None and re-raises.
V73Open ==
    /\ pc = "v73_open"
    /\ dense_err' = NoError
    /\ \E opened \in BOOLEAN :
         IF opened
         THEN /\ h5_file' = "handle"
              /\ handle' = "open"
              /\ idx' = 0
              /\ pc' = "v73_convert"
              /\ UNCHANGED <<status, exc>>
         ELSE /\ Fail("OSError")
              /\ h5_file' = CloseOnError(h5_file, handle).h5_file
              /\ handle' = CloseOnError(h5_file, handle).handle
              /\ UNCHANGED idx
    /\ UNCHANGED <<analysis_type, target_model, group_list, nsub, loader,
                   raw_kind, num_subjects, i, c, group_val, dataset_name,
                   accVars, X, cur, irregular, filterVars, unitVars>>

\* _load_mat_v73: one element of the struct array is rebuilt.  When its
\* reconstruction raises, the except clause closes the file, clears
\* self._h5_file and re-raises.
V73ConvertElement ==
    /\ pc = "v73_convert"
    /\ idx < nsub
    /\ \E draw \in ElementDraws :
         LET f == ElementFile(draw)
             r == ConvertElement(f.h5, f.fields, NoFields)
         IN  IF r.raised = "no"
             THEN /\ idx' = idx + 1
                  /\ UNCHANGED <<pc, h5_file, handle, status, exc>>
             ELSE /\ h5_file' = CloseOnError(h5_file, handle).h5_file
                  /\ handle' = CloseOnError(h5_file, handle).handle
                  /\ Fail(r.raised)
                  /\ UNCHANGED idx
    /\ UNCHANGED <<analysis_type, target_model, group_list, nsub, dense_err,
                   loader, raw_kind, num_subjects, i, c, group_val,
                   dataset_name, accVars, X, cur, irregular, filterVars, unitVars>>

\* _load_mat_v73: every element is built; the file is closed,
\* self._h5_file cleared and the mapping returned.
V73Close ==
    /\ pc = "v73_convert"
    /\ idx = nsub
    /\ h5_file' = "None"
    /\ handle' = "closed"
    /\ loader' = "v73"
    /\ raw_kind' = "array"
    /\ pc' = "select"
    /\ UNCHANGED <<analysis_type, target_model, group_list, nsub, dense_err,
                   idx, num_subjects, i, c, group_val, dataset_name, accVars,
                   status, exc, X, cur, irregular, filterVars, unitVars>>

\* raw_records = mat_data[struct_key] (KeyError when the mapping has neither
\* the kind's key nor 'data'), then ndim, shape and num_subjects: a bare
\* mat_struct has no ndim and no __len__ and counts as one subject.
SelectKey ==
    /\ pc = "select"
    /\ \E keys \in KeySets(analysis_type) :
         IF StructKey(analysis_type, keys) \in keys
         THEN /\ num_subjects' = (IF raw_kind = "array" THEN nsub ELSE 1)
              /\ i' = 0
              /\ pc' = "subject"
              /\ UNCHANGED <<status, exc>>
         ELSE /\ Fail("KeyError")
              /\ UNCHANGED <<num_subjects, i>>
    /\ dense_err' = NoError
    /\ UNCHANGED <<analysis_type, target_model, group_list, nsub, loader,
                   h5_file, handle, idx, raw_kind, c, group_val, dataset_name,
                   accVars, X, cur, irregular, filterVars, unitVars>>

\* The configuration sub-tree of a record, as the file may hold it: none, or
\* a cfg struct whose `dataset` field is the recording's path.
CfgDraws == {"none", "dataset"}

\* The record as far as dataset_name reads it, by reader: the dense reader
\* yields mat_structs and a str, the reference-based loader rebuilds cfg
\* through _convert_condition_struct, whose `dataset` is the path's
\* character codes.
NameRecord(ldr, cfg) ==
    IF ldr = "dense"
    THEN MatStruct(IF cfg = "none" THEN NoFields
                   ELSE ("cfg" :> MatStruct(("dataset" :> Str("sub01.set")))))
    ELSE ConvertElement(
             (1 :> H5Group(<<Child("dataset", H5Data(DimordCodes))>>)),
             IF cfg = "none" THEN <<>> ELSE <<[name |-> "cfg", ref |-> 1]>>,
             NoFields).value

\* hasattr(x, 'dtype') and x.dtype.names and name in x.dtype.names: a
\* MatlabStructElement has the dtype property (names = its keys), a
\* mat_struct has no dtype.
HasDtypeName(x, name) ==
    x.tag = "MatlabStructElement" /\ name \in DOMAIN x.fields

\* dataset_name: "S" + str(i).zfill(3), written <<"S", i>>, unless
\* record['cfg']['dataset'] is a str or starts with one; then the path's
\* stem, written <<text, -1>>.
DatasetNameOf(record, subject) ==
    IF HasDtypeName(record, "cfg") /\ HasDtypeName(record.fields["cfg"], "dataset")
    THEN LET ds == record.fields["cfg"].fields["dataset"]
         IN  IF ds.tag = "str" THEN <<ds.text, -1>> ELSE <<"S", subject>>
    ELSE <<"S", subject>>

\* group_val had every subject been given the first name of the list: a
\* variant that ignores the subject index.
GroupValOf_First(list, subject) ==
    IF list # <<>> THEN GroupMappingGet(list[1]) ELSE -1

\* group_val: self.group_mapping.get(group_list[i], -1), and -1 when the
\* list has no entry i (IndexError).
GroupValOf(list, subject) ==
    IF subject + 1 \in DOMAIN list THEN GroupMappingGet(list[subject + 1]) ELSE -1

\* The head of the loop over subjects: record = raw_records[i] (TypeError on
\* a bare mat_struct, which the handler around the subject turns into
\* `continue`), dataset_name, group_val.
BeginSubject ==
    /\ pc = "subject"
    /\ i < num_subjects
    /\ IF raw_kind = "mat_struct"
       THEN /\ i' = i + 1
            /\ UNCHANGED <<pc, c, group_val, dataset_name>>
       ELSE /\ \E cfg \in CfgDraws :
                 dataset_name' = DatasetNameOf(NameRecord(loader, cfg), i)
            /\ group_val' = GroupValOf(group_list, i)
            /\ c' = 1
            /\ pc' = "pair"
            /\ UNCHANGED i
    /\ UNCHANGED <<analysis_type, target_model, group_list, nsub, dense_err,
                   loader, h5_file, handle, idx, raw_kind, num_subjects,
                   accVars, status, exc, X, cur, irregular, filterVars, unitVars>>

\* The five appends had the last one been left out: a variant under which
\* dataset_names falls behind the other lists.
AppendDatasetName_Dropped(names, name) == names

\* dataset_names.append(dataset_name), the last of the five appends.
AppendDatasetName(names, name) == Append(names, name)

\* One pass of the loop over self.conditions: the pair's content is read
\* and extracted; the sample and its four labels are appended together, a
\* caught exception or an empty sample skips the pair, any other exception
\* reaches the handler around the subject, which goes on to the next subject.
ExtractStep ==
    /\ pc = "pair"
    /\ \E content \in CondContents(analysis_type), allocOk \in BOOLEAN :
         LET regular == IsWellFormed(content) /\ allocOk
             record == RecordFor(loader, conditions[c], content, analysis_type)
             out == ExtractPair(record, conditions[c], analysis_type,
                                target_model, allocOk)
         IN  /\ regular \/ irregular < MaxIrregular
             /\ cur' = [content |-> content, i |-> i, c |-> c,
                        kind |-> out.kind, exc |-> out.exc]
             /\ irregular' = (IF regular THEN irregular ELSE irregular + 1)
             /\ IF out.kind = "append"
                THEN /\ all_samples' = Append(all_samples, out.sample)
                     /\ condition_labels' = Append(condition_labels, c - 1)
                     /\ group_labels' = Append(group_labels, group_val)
                     /\ subject_ids' = Append(subject_ids, i)
                     /\ dataset_names' = AppendDatasetName(dataset_names, dataset_name)
                ELSE UNCHANGED accVars
             /\ IF out.kind = "abort" \/ c = Len(conditions)
                THEN i' = i + 1 /\ pc' = "subject" /\ UNCHANGED c
                ELSE c' = c + 1 /\ UNCHANGED <<i, pc>>
    /\ UNCHANGED <<analysis_type, target_model, group_list, nsub, dense_err,
                   loader, h5_file, handle, idx, raw_kind, num_subjects,
                   group_val, dataset_name, status, exc, X, filterVars, unitVars>>

\* After the loop: ValueError when no sample was loaded; otherwise the
\* samples are normalised and stacked, _apply_transform is applied and
\* (X_transformed, y) returned.
Finish ==
    /\ pc = "subject"
    /\ i = num_subjects
    /\ IF Len(all_samples) = 0
       THEN Fail("ValueError: No samples loaded") /\ UNCHANGED X
       ELSE LET s == NormalizeAndStack(all_samples)
                t == IF s.raised # "no" THEN s
                     ELSE apply_transform(s.value, analysis_type, target_model)
            IN  IF t.raised # "no"
                THEN Fail(t.raised) /\ UNCHANGED X
                ELSE X' = t.value /\ pc' = "end" /\ status' = "returned"
                     /\ UNCHANGED exc
    /\ UNCHANGED <<analysis_type, target_model, group_list, nsub, dense_err,
                   loader, h5_file, handle, idx, raw_kind, num_subjects, i, c,
                   group_val, dataset_name, accVars, cur, irregular, filterVars, unitVars>>

Next ==
    \/ CheckExists
    \/ DenseRead
    \/ V73Open
    \/ V73ConvertElement
    \/ V73Close
    \/ SelectKey
    \/ BeginSubject
    \/ ExtractStep
    \/ Finish

Spec == Init /\ [][Next]_vars

\* --------------------------------------------- filter_by_selected_classes

\* A group label is an int (the bridge's group index) or a name.
IntLabel(v) == [tag |-> "int", value |-> v]

StrLabel(text) == [tag |-> "str", text |-> text]

\* A class string is written as its pieces between underscores:
\* "PD_target" is <<"PD", "target">>, "PDtarget" is <<"PDtarget">>.

\* str.upper() of a piece of a group name.
Upper(name) ==
    CASE name \in {"HC", "Hc", "hc"} -> "HC"
      [] name \in {"CTL", "Ctl", "ctl"} -> "CTL"
      [] name \in {"P", "p"} -> "P"
      [] name \in {"PD", "pd"} -> "PD"
      [] name \in {"Parkinson", "parkinson"} -> "PARKINSON"
      [] name \in {"Parkinsons", "parkinsons"} -> "PARKINSONS"
      [] name \in {"Parkinson's", "parkinson's"} -> "PARKINSON'S"
      [] name \in {"my", "MY"} -> "MY"
      [] name \in {"XX", "xx"} -> "XX"
      [] OTHER -> name

\* str.lower() of a condition name.
Lower(name) ==
    CASE name \in {"target", "Target", "TARGET"} -> "target"
      [] name \in {"standard", "Standard", "STANDARD"} -> "standard"
      [] name \in {"novelty", "Novelty", "NOVELTY"} -> "novelty"
      [] OTHER -> name

\* self.conditions.index(name) if name in self.conditions else -1
ConditionIndex(name) ==
    IF \E k \in 1..Len(conditions) : conditions[k] = name
    THEN (CHOOSE k \in 1..Len(conditions) : conditions[k] = name) - 1
    ELSE -1

\* class_str.rsplit('_', 1): one part without an underscore, else the text
\* before the last underscore and the piece after it.
RSplit(class_str) ==
    IF Len(class_str) = 1 THEN <<class_str>>
    ELSE <<SubSeq(class_str, 1, Len(class_str) - 1), <<class_str[Len(class_str)]>>>>

\* selected_combos without the test on condition_idx: a variant that also
\* takes the class strings whose condition is unknown, with index -1.
RECURSIVE ParseSelected_AnyCondition(_)
ParseSelected_AnyCondition(selected_classes) ==
    IF selected_classes = <<>> THEN <<>>
    ELSE LET parts == RSplit(Head(selected_classes))
             rest  == ParseSelected_AnyCondition(Tail(selected_classes))
         IN  IF Len(parts) = 2
             THEN <<[group |-> [k \in 1..Len(parts[1]) |-> Upper(parts[1][k])],
                     cond |-> ConditionIndex(Lower(parts[2][1]))]>> \o rest
             ELSE rest

\* selected_combos: (group_name.upper(), condition_idx) of every class
\* string with two parts and a known condition.
RECURSIVE ParseSelected(_)
ParseSelected(selected_classes) ==
    IF selected_classes = <<>> THEN <<>>
    ELSE LET parts == RSplit(Head(selected_classes))
             rest  == ParseSelected(Tail(selected_classes))
         IN  IF Len(parts) = 2
                /\ ConditionIndex(Lower(parts[2][1])) # -1
             THEN <<[group |-> [k \in 1..Len(parts[1]) |-> Upper(parts[1][k])],
                     cond |-> ConditionIndex(Lower(parts[2][1]))]>> \o rest
             ELSE rest

\* self.group_mapping.get(selected_group, -1): no key of the table holds an
\* underscore, so only a one-piece name can be a key.
SelectedGroupIdx(selected_group) ==
    IF Len(selected_group) = 1 THEN GroupMappingGet(selected_group[1]) ELSE -1

\* group_idx of a sample: int(group_label), or for a name
\* self.group_mapping.get(str(group_label).upper(), -1).
GroupIdxOf(group_label) ==
    IF group_label.tag = "int" THEN group_label.value
    ELSE GroupMappingGet(Upper(group_label.text))

\* Whether the sample matches any selected combo.
MatchesCombo(combos, group_idx, cond_label) ==
    \E k \in 1..Len(combos) :
        SelectedGroupIdx(combos[k].group) = group_idx /\ combos[k].cond = cond_label

FilterResult(samples, g_labels, c_labels, kept_indices) ==
    [samples |-> samples, group_labels |-> g_labels,
     condition_labels |-> c_labels, kept_indices |-> kept_indices]

\* The loop over enumerate(zip(samples, group_labels, condition_labels)).
RECURSIVE FilterLoop(_, _, _, _, _, _)
FilterLoop(samples, g_labels, c_labels, combos, k, acc) ==
    IF k > Len(samples) THEN acc
    ELSE FilterLoop(samples, g_labels, c_labels, combos, k + 1,
            IF MatchesCombo(combos, GroupIdxOf(g_labels[k]), c_labels[k])
            THEN FilterResult(Append(acc.samples, samples[k]),
                              Append(acc.group_labels, g_labels[k]),
                              Append(acc.condition_labels, c_labels[k]),
                              Append(acc.kept_indices, k - 1))
            ELSE acc)

\* filter_by_selected_classes
filter_by_selected_classes(samples, g_labels, c_labels, selected_classes) ==
    LET all == FilterResult(samples, g_labels, c_labels,
                            [k \in 1..Len(samples) |-> k - 1])
        combos == ParseSelected(selected_classes)
    IN  IF selected_classes = <<>> THEN all
        ELSE IF combos = <<>> THEN all
        ELSE FilterLoop(samples, g_labels, c_labels, combos, 1,
                        FilterResult(<<>>, <<>>, <<>>, <<>>))

\* The spellings of group names and conditions the class strings are drawn
\* from: every key of the table, an unknown name and the empty name.
GroupTokens == DOMAIN group_mapping \cup {"XX", ""}

CondTokens == {"target", "Standard", "rest"}

ClassStrings ==
    {<<g, cn>> : g \in GroupTokens, cn \in CondTokens}
    \cup {<<"PDtarget">>, <<"my", "PD", "target">>}

SelectedDraws ==
    {<<>>} \cup {<<cs>> : cs \in ClassStrings}
    \cup {<<cs, cs2>> : cs \in ClassStrings,
                        cs2 \in {<<"P", "target">>, <<"HC", "Standard">>}}

GroupLabelDraws == {IntLabel(-1), IntLabel(0), IntLabel(1), StrLabel("pd")}

FilterInputs ==
    UNION {[samples : {[k \in 1..n |-> 100 + k]},
            group_labels : [1..n -> GroupLabelDraws],
            condition_labels : [1..n -> 0..2],
            selected_classes : SelectedDraws] : n \in 0..MaxFilterSamples}

\* No call of load_and_transform is under way.
LoadIdle ==
    /\ pc = "idle"
    /\ analysis_type = "erp"
    /\ target_model = "eeg_net"
    /\ group_list = <<>>
    /\ nsub = 0
    /\ dense_err = NoError
    /\ loader = "none"
    /\ h5_file = "None"
    /\ handle = "unopened"
    /\ idx = 0
    /\ raw_kind = "none"
    /\ num_subjects = 0
    /\ i = 0
    /\ c = 1
    /\ group_val = -1
    /\ dataset_name = <<"S", 0>>
    /\ all_samples = <<>>
    /\ condition_labels = <<>>
    /\ group_labels = <<>>
    /\ subject_ids = <<>>
    /\ dataset_names = <<>>
    /\ status = "running"
    /\ exc = "no"
    /\ X = None
    /\ cur = NoCur
    /\ irregular = 0

InitFilter ==
    /\ LoadIdle
    /\ UnitIdle
    /\ f_pc = "in"
    /\ f_in \in FilterInputs
    /\ f_out = FilterResult(<<>>, <<>>, <<>>, <<>>)

\* One call of filter_by_selected_classes on the drawn arguments.
FilterCall ==
    /\ f_pc = "in"
    /\ f_out' = filter_by_selected_classes(f_in.samples, f_in.group_labels,
                                           f_in.condition_labels, f_in.selected_classes)
    /\ f_pc' = "out"
    /\ UNCHANGED <<f_in, loadVars, unitVars>>

NextFilter == FilterCall

SpecFilter == InitFilter /\ [][NextFilter]_vars

\* ------------------------------- the normaliser and _apply_transform

\* The shapes of the samples handed to the normaliser: squeezed arrays, so
\* no axis has extent 1; rank 0 is a one-cell array.
SampleShapes == {<<>>, <<2>>, <<3>>, <<2, 2>>, <<2, 3>>, <<3, 2>>, <<2, 2, 2>>}

\* The sample at position p of the list: non-zero cells that tell the
\* samples and their cells apart.
SampleAt(p, shape) == Arr(shape, [k \in 1..Prod(shape) |-> 10 * p + k])

NormInputs ==
    UNION {[samples : {[p \in 1..n |-> SampleAt(p, sh[p])] : sh \in [1..n -> SampleShapes]},
            analysis_type : AnalysisKinds,
            target_model : TargetModels] : n \in 1..MaxNormSamples}

InitNorm ==
    /\ LoadIdle
    /\ FilterIdle
    /\ u_pc = "in"
    /\ u_in \in NormInputs
    /\ u_out = [raised |-> "no", value |-> None, batch |-> None]

\* Lines 465-487 on the drawn samples: X, or the exception.
NormalizeCall ==
    /\ u_pc = "in"
    /\ LET s == NormalizeAndStack(u_in.samples)
       IN  /\ u_out' = [raised |-> s.raised, value |-> s.value, batch |-> s.value]
           /\ u_pc' = IF s.raised = "no" THEN "stacked" ELSE "raised"
    /\ UNCHANGED <<u_in, loadVars, filterVars>>

\* X_transformed = self._apply_transform(X, analysis_type, target_model)
TransformCall ==
    /\ u_pc = "stacked"
    /\ LET t == apply_transform(u_out.batch, u_in.analysis_type, u_in.target_model)
       IN  /\ u_out' = [raised |-> t.raised, value |-> t.value, batch |-> u_out.batch]
           /\ u_pc' = IF t.raised = "no" THEN "out" ELSE "raised_transform"
    /\ UNCHANGED <<u_in, loadVars, filterVars>>

NextNorm == NormalizeCall \/ TransformCall

SpecNorm == InitNorm /\ [][NextNorm]_vars

\* ------------------------------------ the label remap of the drivers

\* The values of a set in increasing order.
RECURSIVE SortedSeq(_)
SortedSeq(S) ==
    IF S = {} THEN <<>>
    ELSE LET m == CHOOSE x \in S : \A y \in S : x <= y
         IN  <<m>> \o SortedSeq(S \ {m})

\* The distinct labels had they been collected in order of first appearance:
\* a variant without np.unique's sorting.
RECURSIVE Unique_FirstSeen(_)
Unique_FirstSeen(labels) ==
    IF labels = <<>> THEN <<>>
    ELSE LET front == Unique_FirstSeen(SubSeq(labels, 1, Len(labels) - 1))
             last  == labels[Len(labels)]
         IN  IF \E k \in 1..Len(front) : front[k] = last THEN front
             ELSE Append(front, last)

\* unique_class_indices = np.unique(combined_labels): the distinct labels,
\* sorted.
Unique(labels) == SortedSeq({labels[k] : k \in 1..Len(labels)})

\* label_mapping = {old_idx: new_idx for new_idx, old_idx in
\* enumerate(unique_class_indices)}
LabelMapping(unique_class_indices) ==
    [old_idx \in {unique_class_indices[k] : k \in 1..Len(unique_class_indices)} |->
        (CHOOSE k \in 1..Len(unique_class_indices) :
            unique_class_indices[k] = old_idx) - 1]

\* np.array([label_mapping[label] for label in combined_labels]), with the
\* names of what it was computed from.
RemapLabels(combined_labels) ==
    LET unique_class_indices == Unique(combined_labels)
        label_mapping == LabelMapping(unique_class_indices)
    IN  [combined |-> combined_labels,
         unique   |-> unique_class_indices,
         remapped |-> [k \in 1..Len(combined_labels) |->
                          label_mapping[combined_labels[k]]]]

\* EEG-Inception: combined_labels = groups * 3 + conditions, then the remap.
RemapInception(groups, conds) ==
    RemapLabels([k \in 1..Len(groups) |-> groups[k] * 3 + conds[k]])

\* Riemannian: combined_labels = groups * 3 + conditions, then the remap.
RemapRiemannian(groups, conds) ==
    RemapLabels([k \in 1..Len(groups) |-> groups[k] * 3 + conds[k]])

\* The positions np.isin(groups, np.arange(group_count)) keeps, in order.
RECURSIVE ValidPositions(_, _, _)
ValidPositions(groups, group_count, k) ==
    IF k > Len(groups) THEN <<>>
    ELSE (IF groups[k] \in 0..(group_count - 1) THEN <<k>> ELSE <<>>)
         \o ValidPositions(groups, group_count, k + 1)

\* EEGNet: samples with an invalid group id are dropped,
\* combined_labels = conditions * group_count + groups, then the remap.
RemapEEGNet(groups, conds, group_count) ==
    LET keep == ValidPositions(groups, group_count, 1)
    IN  RemapLabels([j \in 1..Len(keep) |->
                        conds[keep[j]] * group_count + groups[keep[j]]])

\* all_class_names of the EEG-Inception driver (class_names of
\* classify_sample.py, up to letter case).
all_class_names ==
    <<"HC-target", "HC-standard", "HC-novelty",
      "PD-target", "PD-standard", "PD-novelty">>

\* list[idx] of Python: a negative index counts from the end, an index
\* outside -len .. len-1 raises IndexError.
ListIndex(list, pos) ==
    IF pos \in 0..(Len(list) - 1) THEN No(list[pos + 1])
    ELSE IF pos \in (-Len(list))..(-1) THEN No(list[Len(list) + pos + 1])
    ELSE Raised("IndexError")

Drivers == {"EEG-Inception", "Riemannian", "EEGNet"}

RemapInputs ==
    UNION {[driver : Drivers,
            groups : [1..n -> {-1, 0, 1}],
            conditions : [1..n -> 0..2]] : n \in 1..MaxRemapSamples}

InitRemap ==
    /\ LoadIdle
    /\ FilterIdle
    /\ u_pc = "in"
    /\ u_in \in RemapInputs
    /\ u_out = [combined |-> <<>>, unique |-> <<>>, remapped |-> <<>>]

\* The driver's steps from y['group'], y['condition'] to the remapped labels
\* it trains on; group_count is len(labels) of a two-group study.
RemapCall ==
    /\ u_pc = "in"
    /\ u_out' = CASE u_in.driver = "EEG-Inception" ->
                       RemapInception(u_in.groups, u_in.conditions)
                  [] u_in.driver = "Riemannian" ->
                       RemapRiemannian(u_in.groups, u_in.conditions)
                  [] u_in.driver = "EEGNet" ->
                       RemapEEGNet(u_in.groups, u_in.conditions, 2)
    /\ u_pc' = "out"
    /\ UNCHANGED <<u_in, loadVars, filterVars>>

NextRemap == RemapCall

SpecRemap == InitRemap /\ [][NextRemap]_vars

\* ------------------------------------------- the choice of key and field

\* The names of every record-array key of the table, and 'data'.
RecordKeys ==
    {"ERP_data", "timefreq_data", "spectral_data", "coherence_data",
     "itc_data", "data"}

\* The keys of mat_data for a container holding the variables `names`:
\* sio.loadmat adds its three header entries; _load_mat_v73 walks the HDF5
\* root, which also holds '#refs#', and drops the names starting with '#'.
MatDataKeys(ld, names) ==
    IF ld = "dense"
    THEN names \cup {"__header__", "__version__", "__globals__"}
    ELSE {k \in names \cup {"#refs#"} : ~StartsWithHash(k)}

KeyInputs ==
    [analysis_type : AnalysisKinds,
     target_model : TargetModels,
     loader : {"dense", "v73"},
     names : SUBSET RecordKeys]

InitKeys ==
    /\ LoadIdle
    /\ FilterIdle
    /\ u_pc = "in"
    /\ u_in \in KeyInputs
    /\ u_out = [struct_key |-> "", data_field |-> "", raised |-> "no"]

\* load_and_transform from the loaded mapping to raw_records: struct_key and
\* data_field are chosen, and mat_data[struct_key] raises KeyError when the
\* mapping lacks the chosen key.
KeyCall ==
    /\ u_pc = "in"
    /\ LET keys == MatDataKeys(u_in.loader, u_in.names)
           sk == StructKey(u_in.analysis_type, keys)
       IN  u_out' = [struct_key |-> sk,
                     data_field |-> DataField(u_in.analysis_type),
                     raised |-> IF sk \in keys THEN "no" ELSE "KeyError"]
    /\ u_pc' = "keyed"
    /\ UNCHANGED <<u_in, loadVars, filterVars>>

NextKeys == KeyCall

SpecKeys == InitKeys /\ [][NextKeys]_vars

\* ---------------------------------- the reconstruction of a struct array

\* The fields of the top-level group, in key order.
ConvFieldNames == <<"target", "standard">>

\* What the handles of one element resolve to: a condition group with its
\* primary field; one with further children (a dataset `var`, a group `cfg`,
\* a dataset `elec`); one with nested groups (`trial`, a data field, and
\* `stat`); one whose children are reference datasets; a single-reference
\* dataset leading to a condition group; a chain of two of them leading to a
\* dataset; one referring to itself; one referring to no object.
ObjectDraws ==
    {"cond", "extra", "nested", "refchild", "chain1", "chain2", "cycle",
     "badref"}

\* The handle field f's table holds for element e, and the payload that
\* tells the objects of the file apart.
Handle(f, e) == 10 * f + e

Payload(f, e) == Arr(<<1>>, <<Handle(f, e)>>)

\* Whether the file has the k-th object (handle 100 * k + Handle(f, e)) of an
\* element drawn as `draw`.
HasObject(draw, k) ==
    CASE draw \in {"cond", "extra", "nested", "cycle", "badref"} -> k = 0
      [] draw = "chain1" -> k \in {0, 1}
      [] OTHER -> k \in {0, 1, 2}

ObjectAt(draw, f, e, k) ==
    LET h == Handle(f, e)
        p == H5Data(Payload(f, e))
        cond == H5Group(<<Child("avg", p)>>)
    IN  CASE draw = "cond" -> cond
          [] draw = "extra" ->
               H5Group(<<Child("avg", p), Child("var", p),
                         Child("cfg", H5Group(<<Child("version", p)>>)),
                         Child("elec", p)>>)
          [] draw = "nested" ->
               H5Group(<<Child("avg", p),
                         Child("trial", H5Group(<<Child("data", p)>>)),
                         Child("stat", H5Group(<<Child("data", p)>>))>>)
          [] draw = "refchild" ->
               (CASE k = 0 ->
                       H5Group(<<Child("avg", H5Refs(<<1, 1>>, <<100 + h>>)),
                                 Child("label", H5Refs(<<1, 2>>, <<100 + h, 100 + h>>)),
                                 Child("time", H5Refs(<<1, 1>>, <<200 + h>>))>>)
                  [] k = 1 -> p
                  [] OTHER -> cond)
          [] draw = "chain1" ->
               (IF k = 0 THEN H5Refs(<<1, 1>>, <<100 + h>>) ELSE cond)
          [] draw = "chain2" ->
               (CASE k = 0 -> H5Refs(<<1, 1>>, <<100 + h>>)
                  [] k = 1 -> H5Refs(<<1, 1>>, <<200 + h>>)
                  [] OTHER -> p)
          [] draw = "cycle" -> H5Refs(<<1, 1>>, <<h>>)
          [] OTHER -> H5Refs(<<1, 1>>, <<300 + h>>)

\* The file: its objects by handle.
ConvFile(n, draws) ==
    [h \in {100 * k + Handle(f, e) :
              <<f, e, k>> \in {t \in (1..Len(ConvFieldNames)) \X (0..(n - 1)) \X (0..2) :
                                 HasObject(draws[t[2] + 1], t[3])}}
       |-> ObjectAt(draws[(h % 10) + 1], (h % 100) \div 10, h % 10, h \div 100)]

\* The top-level group: every field a table of n handles, 1xn or nx1.
ConvTop(n, orient) ==
    H5Group([f \in 1..Len(ConvFieldNames) |->
               Child(ConvFieldNames[f],
                     H5Refs(IF orient[f] = "row" THEN <<1, n>> ELSE <<n, 1>>,
                            [j \in 1..n |-> Handle(f, j - 1)]))])

ConvInputs ==
    UNION {[n : {n},
            orient : [1..Len(ConvFieldNames) -> {"row", "col"}],
            draws : [1..n -> ObjectDraws]] : n \in 1..MaxSubjects}

InitConv ==
    /\ LoadIdle
    /\ FilterIdle
    /\ u_pc = "in"
    /\ u_in \in ConvInputs
    /\ u_out = [raised |-> "no", value |-> None, depth |-> 0,
                num_subjects |-> 0, positions |-> <<>>]

\* _load_mat_v73 on the top-level key: _convert_mat73_struct_array rebuilds
\* the record array or raises.
ConvertCall ==
    /\ u_pc = "in"
    /\ LET r == convert_mat73_struct_array(ConvFile(u_in.n, u_in.draws),
                                           ConvTop(u_in.n, u_in.orient))
       IN  /\ u_out' = [u_out EXCEPT !.raised = r.raised, !.value = r.value,
                                     !.depth = r.depth]
           /\ u_pc' = IF r.raised = "no" THEN "converted" ELSE "raised"
    /\ UNCHANGED <<u_in, loadVars, filterVars>>

\* load_and_transform on the rebuilt array: num_subjects and the index read
\* for every i in range(num_subjects).
IterateCall ==
    /\ u_pc = "converted"
    /\ LET ns == NumSubjectsOf(u_out.value)
       IN  IF ns.raised = "no"
           THEN /\ u_out' = [u_out EXCEPT
                               !.num_subjects = ns.value,
                               !.positions = [j \in 1..ns.value |->
                                                SubjectPosition(u_out.value, j - 1)]]
                /\ u_pc' = "iterated"
           ELSE /\ u_out' = [u_out EXCEPT !.raised = ns.raised]
                /\ u_pc' = "raised"
    /\ UNCHANGED <<u_in, loadVars, filterVars>>

NextConv == ConvertCall \/ IterateCall

SpecConv == InitConv /\ [][NextConv]_vars

\* ------------------------------------------- one (subject, condition) pair

\* The shapes of the primary field the pairs are drawn with: empty, 1x1,
\* a row, and ranks 2, 3 and 4.
PairShapes == {<<0, 0>>, <<1, 1>>, <<1, 2>>, <<2, 2>>, <<2, 2, 2>>, <<2, 2, 2, 2>>}

\* Its cells: all finite; a NaN in the first cell; +Inf in the first and
\* -Inf in the last; NaN throughout.  The finite cells are multiples of 12,
\* so that every mean the extraction takes is integral.
PairFills == {"finite", "nan", "inf", "all_nan"}

PairArray(shape, fill) ==
    Arr(shape, [k \in 1..Prod(shape) |->
                  CASE fill = "nan" /\ k = 1 -> NaN
                    [] fill = "inf" /\ k = 1 -> PosInf
                    [] fill = "inf" /\ k = Prod(shape) -> NegInf
                    [] fill = "all_nan" -> NaN
                    [] OTHER -> 12 * k])

\* The dimension-order string of the condition record: none, one that names
\* a leading trial axis, one that does not.
DimordDraws == {"absent", "rpt_chan_freq", "chan_freq_time"}

\* The character codes the reference encoding stores for the string.
DimordCodesOf(text) ==
    IF text = "rpt_chan_freq" THEN DimordCodes
    ELSE Arr(<<14, 1>>, <<99, 104, 97, 110, 95, 102, 114, 101, 113, 95,
                          116, 105, 109, 101>>)

\* The record each loader delivers for a condition whose primary field is
\* `primary`: mat_struct attributes with the string a str from the dense
\* reader, the rebuilt MatlabStructElement from the reference-based one.
PairRecord(ldr, cond, data_field, primary, dimord) ==
    IF ldr = "dense"
    THEN MatStruct(cond :>
             MatStruct(IF dimord = "absent" THEN (data_field :> primary)
                       ELSE (data_field :> primary) @@ ("dimord" :> Str(dimord))))
    ELSE ConvertElement(
             (1 :> H5Group(IF dimord = "absent"
                           THEN <<Child(data_field, H5Data(primary))>>
                           ELSE <<Child(data_field, H5Data(primary)),
                                  Child("dimord", H5Data(DimordCodesOf(dimord)))>>)),
             <<[name |-> cond, ref |-> 1]>>, NoFields).value

PairInputs ==
    [loader : {"dense", "v73"},
     analysis_type : AnalysisKinds,
     target_model : TargetModels,
     shape : PairShapes,
     fill : PairFills,
     dimord : DimordDraws]

InitPair ==
    /\ LoadIdle
    /\ FilterIdle
    /\ u_pc = "in"
    /\ u_in \in PairInputs
    /\ u_out = [kind |-> "none", exc |-> "no", sample |-> None]

\* The body of the loop over self.conditions, for the condition `target` of
\* the drawn record.
PairCall ==
    /\ u_pc = "in"
    /\ u_out' = ExtractPair(PairRecord(u_in.loader, "target",
                                       DataField(u_in.analysis_type),
                                       PairArray(u_in.shape, u_in.fill),
                                       u_in.dimord),
                            "target", u_in.analysis_type, u_in.target_model, TRUE)
    /\ u_pc' = "out"
    /\ UNCHANGED <<u_in, loadVars, filterVars>>

NextPair == PairCall

SpecPair == InitPair /\ [][NextPair]_vars

\* ------------------------------- two calls on one PreprocessBridge instance

\* Two load_and_transform calls on the same instance, both on a
\* reference-encoded file, their steps interleaved.  Each call is one
\* _load_mat_v73 with the conversion it calls, and every statement of it
\* that reads a file or reads or writes self._h5_file is a step of its own,
\* named by its line: the other call may run between any two of them.  A
\* statement reads either through the attribute, whatever it holds at that
\* moment, or through an object an earlier statement bound, which stays an
\* object of the file it was read from.
\*
\* Each file holds "#refs#" and one struct array whose single field holds
\* one reference per element; an element is a group with one data field,
\* stored in place or, with by_ref, as a reference to a dataset.
\*
\* u_pc is the line each call is at; u_in the files' content; u_out the
\* instance attribute (0 for None, else the number of the call that opened
\* the file), the files (state, number of close calls, the calls that read
\* through it and closed it), the exception each call ends with, and each
\* call's bound objects: the file of h5_obj of line 544, of dereffed of line
\* 612 and of line 662, the number of elements found at line 597 and the
\* element being converted.
Calls == {1, 2}

NoFile == [state |-> "unopened", closes |-> 0, used_by |-> {}, closed_by |-> {}]

NoBindings == [top |-> 0, elem |-> 0, leaf |-> 0, n |-> 0, k |-> 0]

\* h5py.File.close as call cl runs it on file h5: the files after it.
\* Closing a closed file is accepted by h5py.
CloseFile(files, h5, cl) ==
    [files EXCEPT ![h5] = [@ EXCEPT !.state = "closed",
                                    !.closes = IF @ < 2 THEN @ + 1 ELSE @,
                                    !.closed_by = @ \cup {cl}]]

\* the statements that read through self._h5_file: line 539 lists the keys,
\* line 541 takes the keys view and its first key, at which h5py's iterator
\* reads all the names, line 544 takes the top-level object, lines 612 and
\* 662 are calls of _deref (line 566)
AttrLines == {"539", "541", "544", "612", "662"}

\* the object a statement that reads through the attribute binds
AttrBinds(line) ==
    CASE line = "544" -> "top"
      [] line = "612" -> "elem"
      [] line = "662" -> "leaf"
      [] OTHER -> "none"

\* what a statement raises when the attribute is None: None has no keys
\* method, and is not subscriptable
NoneError(line) ==
    IF line \in {"539", "541"} THEN "AttributeError" ELSE "TypeError"

\* the statements that read through a bound object, and the object: lines
\* 582-605 read h5_obj of _convert_mat73_struct_array, lines 645-657 h5_obj
\* of _convert_condition_struct, line 664 the dereferenced dataset
BoundLines == {"582", "589", "592", "605", "645", "655", "657", "664"}

BoundVia(line) ==
    CASE line \in {"582", "589", "592", "605"} -> "top"
      [] line \in {"645", "655", "657"} -> "elem"
      [] line = "664" -> "leaf"

\* the statement after `line` when it does not raise, for a call converting
\* element k of n.  After the last element the loop of line 541 ends on the
\* names its iterator holds, without a read of the file, and control is at
\* line 549.
AfterElement(k, n) == IF k < n THEN "605" ELSE "549"

NextLine(line, k, n, by_ref) ==
    CASE line = "538" -> "539"
      [] line = "539" -> "541"
      [] line = "541" -> "544"
      [] line = "544" -> "582"
      [] line = "582" -> "589"
      [] line = "589" -> "592"
      [] line = "592" -> "605"
      [] line = "605" -> "612"
      [] line = "612" -> "645"
      [] line = "645" -> "655"
      [] line = "655" -> "657"
      [] line = "657" -> IF by_ref THEN "662" ELSE AfterElement(k, n)
      [] line = "662" -> "664"
      [] line = "664" -> AfterElement(k, n)

\* the element a call converts after `line`
NextElement(line, k, n, by_ref) ==
    IF line = "592" THEN 1
    ELSE IF NextLine(line, k, n, by_ref) = "605" THEN k + 1
    ELSE k

InitShared ==
    /\ LoadIdle
    /\ FilterIdle
    /\ u_pc = [cl \in Calls |-> "538"]
    /\ u_in \in [n : [Calls -> 1..MaxSubjects], by_ref : BOOLEAN]
    /\ u_out = [h5_file |-> 0, files |-> [cl \in Calls |-> NoFile],
                exc |-> [cl \in Calls |-> "no"],
                calls |-> [cl \in Calls |-> NoBindings]]

\* line 538: self._h5_file = h5py.File(mat_path, 'r')
SharedOpen(cl) ==
    /\ u_pc[cl] = "538"
    /\ u_out' = [u_out EXCEPT !.h5_file = cl, !.files[cl].state = "open"]
    /\ u_pc' = [u_pc EXCEPT ![cl] = "539"]
    /\ UNCHANGED <<u_in, loadVars, filterVars>>

\* A statement that reads through the attribute.  With the attribute None
\* it raises NoneError, with a closed file h5py raises ValueError; control
\* then goes to the except clause.  Else the object read is one of the file
\* the attribute holds.
SharedAttrRead(cl) ==
    /\ u_pc[cl] \in AttrLines
    /\ LET h5 == u_out.h5_file
           line == u_pc[cl]
           b == u_out.calls[cl]
       IN  IF h5 # 0 /\ u_out.files[h5].state = "open"
           THEN /\ u_out' = [u_out EXCEPT
                               !.files[h5].used_by = @ \cup {cl},
                               !.calls[cl] =
                                   IF AttrBinds(line) = "none" THEN @
                                   ELSE [@ EXCEPT ![AttrBinds(line)] = h5]]
                /\ u_pc' = [u_pc EXCEPT ![cl] =
                              NextLine(line, b.k, b.n, u_in.by_ref)]
           ELSE /\ u_out' = [u_out EXCEPT !.exc[cl] =
                               IF h5 # 0 THEN "ValueError"
                               ELSE NoneError(line)]
                /\ u_pc' = [u_pc EXCEPT ![cl] = "559"]
    /\ UNCHANGED <<u_in, loadVars, filterVars>>

\* A statement that reads through a bound object: h5py raises ValueError
\* when the object's file is closed, whatever the attribute holds.  Line
\* 592 reads the references of the first field, whose number is the number
\* of elements (line 597) of the file the object belongs to.
SharedBoundRead(cl) ==
    /\ u_pc[cl] \in BoundLines
    /\ LET line == u_pc[cl]
           b == u_out.calls[cl]
           h5 == b[BoundVia(line)]
           found == IF line = "592" THEN u_in.n[h5] ELSE b.n
       IN  IF u_out.files[h5].state = "open"
           THEN /\ u_out' = [u_out EXCEPT
                               !.files[h5].used_by = @ \cup {cl},
                               !.calls[cl] =
                                   [@ EXCEPT
                                      !.n = found,
                                      !.k = NextElement(line, b.k, found,
                                                        u_in.by_ref)]]
                /\ u_pc' = [u_pc EXCEPT ![cl] =
                              NextLine(line, b.k, found, u_in.by_ref)]
           ELSE /\ u_out' = [u_out EXCEPT !.exc[cl] = "ValueError"]
                /\ u_pc' = [u_pc EXCEPT ![cl] = "559"]
    /\ UNCHANGED <<u_in, loadVars, filterVars>>

\* line 549: if self._h5_file is not None; else line 553 returns
SharedTest(cl) ==
    /\ u_pc[cl] = "549"
    /\ u_pc' = [u_pc EXCEPT ![cl] =
                  IF u_out.h5_file # 0 THEN "550" ELSE "done"]
    /\ UNCHANGED <<u_in, u_out, loadVars, filterVars>>

\* line 550: self._h5_file.close(), on whatever the attribute holds now; on
\* None it raises AttributeError inside the try block
SharedClose(cl) ==
    /\ u_pc[cl] = "550"
    /\ IF u_out.h5_file # 0
          THEN /\ u_out' = [u_out EXCEPT
                              !.files = CloseFile(@, u_out.h5_file, cl)]
               /\ u_pc' = [u_pc EXCEPT ![cl] = "551"]
          ELSE /\ u_out' = [u_out EXCEPT !.exc[cl] = "AttributeError"]
               /\ u_pc' = [u_pc EXCEPT ![cl] = "559"]
    /\ UNCHANGED <<u_in, loadVars, filterVars>>

\* lines 551-553: self._h5_file = None; return mat_dict
SharedClear(cl) ==
    /\ u_pc[cl] = "551"
    /\ u_out' = [u_out EXCEPT !.h5_file = 0]
    /\ u_pc' = [u_pc EXCEPT ![cl] = "done"]
    /\ UNCHANGED <<u_in, loadVars, filterVars>>

\* line 559, in the except clause: if self._h5_file is not None; else line
\* 562 re-raises
SharedExceptTest(cl) ==
    /\ u_pc[cl] = "559"
    /\ u_pc' = [u_pc EXCEPT ![cl] =
                  IF u_out.h5_file # 0 THEN "560" ELSE "raised"]
    /\ UNCHANGED <<u_in, u_out, loadVars, filterVars>>

\* line 560: self._h5_file.close() in the except clause; on None the
\* AttributeError leaves the method
SharedExceptClose(cl) ==
    /\ u_pc[cl] = "560"
    /\ IF u_out.h5_file # 0
          THEN /\ u_out' = [u_out EXCEPT
                              !.files = CloseFile(@, u_out.h5_file, cl)]
               /\ u_pc' = [u_pc EXCEPT ![cl] = "561"]
          ELSE /\ u_out' = [u_out EXCEPT !.exc[cl] = "AttributeError"]
               /\ u_pc' = [u_pc EXCEPT ![cl] = "raised"]
    /\ UNCHANGED <<u_in, loadVars, filterVars>>

\* lines 561-562: self._h5_file = None; raise
SharedExceptClear(cl) ==
    /\ u_pc[cl] = "561"
    /\ u_out' = [u_out EXCEPT !.h5_file = 0]
    /\ u_pc' = [u_pc EXCEPT ![cl] = "raised"]
    /\ UNCHANGED <<u_in, loadVars, filterVars>>

NextShared ==
    \E cl \in Calls :
        \/ SharedOpen(cl)
        \/ SharedAttrRead(cl)
        \/ SharedBoundRead(cl)
        \/ SharedTest(cl)
        \/ SharedClose(cl)
        \/ SharedClear(cl)
        \/ SharedExceptTest(cl)
        \/ SharedExceptClose(cl)
        \/ SharedExceptClear(cl)

SpecShared == InitShared /\ [][NextShared]_vars

\* ------------------------------------- the class filter of the drivers

\* The label bundle load_and_transform returns.
LabelBundle(groups, conds, subjects, names) ==
    [group |-> groups, condition |-> conds, subject_id |-> subjects,
     dataset_name |-> names]

\* [original[i] for i in kept_indices]
TakeKept(original, kept_indices) ==
    [j \in 1..Len(kept_indices) |-> original[kept_indices[j] + 1]]

\* The class-filter step of a driver's main(): without selected classes, or
\* when the filter keeps no sample, X and y stay as loaded; otherwise X,
\* y['group'] and y['condition'] become the filter's results and
\* y['subject_id'] is taken at kept_indices; y['dataset_name'] is taken at
\* kept_indices by the EEG-Inception driver only.
DriverFilter(driver, samples, y, selected_classes) ==
    LET r == filter_by_selected_classes(
                 samples, [k \in 1..Len(y.group) |-> IntLabel(y.group[k])],
                 y.condition, selected_classes)
    IN  IF selected_classes = <<>> \/ Len(r.samples) = 0
        THEN [X |-> samples, y |-> y]
        ELSE [X |-> r.samples,
              y |-> LabelBundle(
                        [k \in 1..Len(r.group_labels) |-> r.group_labels[k].value],
                        r.condition_labels,
                        TakeKept(y.subject_id, r.kept_indices),
                        IF driver = "EEG-Inception"
                        THEN TakeKept(y.dataset_name, r.kept_indices)
                        ELSE y.dataset_name)]

\* The --selected-classes lists the driver is run with.
DriverSelected ==
    {<<>>,
     <<<<"PD", "target">>>>,
     <<<<"hc", "Standard">>>>,
     <<<<"PD", "target">>, <<"HC", "standard">>, <<"HC", "novelty">>>>,
     <<<<"XX", "target">>>>,
     <<<<"PDtarget">>>>}

DriverFilterInputs ==
    UNION {[driver : Drivers,
            groups : [1..n -> {-1, 0, 1}],
            conditions : [1..n -> 0..2],
            selected_classes : DriverSelected] : n \in 1..MaxFilterSamples}

\* What the driver holds after bridge.load_and_transform: sample k is
\* 100 + k, of subject k - 1 and dataset name ("S", k - 1).
LoadedX(inp) == [k \in 1..Len(inp.groups) |-> 100 + k]

LoadedY(inp) ==
    LabelBundle(inp.groups, inp.conditions,
                [k \in 1..Len(inp.groups) |-> k - 1],
                [k \in 1..Len(inp.groups) |-> <<"S", k - 1>>])

InitDriverFilter ==
    /\ LoadIdle
    /\ FilterIdle
    /\ u_pc = "in"
    /\ u_in \in DriverFilterInputs
    /\ u_out = [X |-> <<>>, y |-> LabelBundle(<<>>, <<>>, <<>>, <<>>)]

DriverFilterCall ==
    /\ u_pc = "in"
    /\ u_out' = DriverFilter(u_in.driver, LoadedX(u_in), LoadedY(u_in),
                             u_in.selected_classes)
    /\ u_pc' = "out"
    /\ UNCHANGED <<u_in, loadVars, filterVars>>

NextDriverFilter == DriverFilterCall

SpecDriverFilter == InitDriverFilter /\ [][NextDriverFilter]_vars

\* ------------------------------------- MatlabExecutor.loadAndTransformData

\* The value load_and_transform returns: the tuple (X_transformed, y).
Returned(tensor, y) == [tag |-> "tuple", items |-> <<tensor, y>>]

\* obj.shape: an ndarray has the attribute, a tuple has not.
ShapeAttr(obj) ==
    IF obj.tag = "ndarray" THEN No(obj.shape) ELSE Raised("AttributeError")

\* The except clauses of the slot, by the class of the exception.
SlotError(e) ==
    [success |-> FALSE, shape |-> <<>>,
     error |-> CASE e = "FileNotFoundError" -> "File not found"
                 [] e = "KeyError" -> "Invalid analysis type or missing data"
                 [] OTHER -> "Error loading data"]

\* loadAndTransformData: call is the outcome of
\* self._preprocess_bridge.load_and_transform(analysis_type, target_model),
\* [raised, value].
loadAndTransformData(has_bridge, call) ==
    IF ~has_bridge
    THEN [success |-> FALSE, shape |-> <<>>,
          error |-> "PreprocessBridge not initialized"]
    ELSE IF call.raised # "no" THEN SlotError(call.raised)
    ELSE LET transformed_data == call.value
             sh == ShapeAttr(transformed_data)
         IN  IF sh.raised # "no" THEN SlotError(sh.raised)
             ELSE [success |-> TRUE, shape |-> sh.value, error |-> ""]

\* The exceptions load_and_transform raises.
BridgeErrors ==
    {"FileNotFoundError", "KeyError", "ValueError", "TypeError", "OSError",
     "NotImplementedError", "RecursionError", "IndexError"}

\* The outcomes of the bridge's call the slot is drawn with: a returned
\* batch of n samples of any of the shapes above with its label bundle, or
\* an exception.
BridgeOutcomes ==
    {No(Returned(Arr(<<n>> \o sh, [k \in 1..(n * Prod(sh)) |-> k]),
                 LabelBundle([k \in 1..n |-> 0], [k \in 1..n |-> 0],
                             [k \in 1..n |-> k - 1], [k \in 1..n |-> <<"S", k - 1>>]))) :
        n \in 1..MaxNormSamples, sh \in SampleShapes}
    \cup {Raised(e) : e \in BridgeErrors}

SlotInputs ==
    [has_bridge : BOOLEAN, analysis_type : AnalysisKinds,
     target_model : TargetModels, call : BridgeOutcomes]

InitSlot ==
    /\ LoadIdle
    /\ FilterIdle
    /\ u_pc = "in"
    /\ u_in \in SlotInputs
    /\ u_out = [success |-> FALSE, shape |-> <<>>, error |-> ""]

SlotCall ==
    /\ u_pc = "in"
    /\ u_out' = loadAndTransformData(u_in.has_bridge, u_in.call)
    /\ u_pc' = "out"
    /\ UNCHANGED <<u_in, loadVars, filterVars>>

NextSlot == SlotCall

SpecSlot == InitSlot /\ [][NextSlot]_vars

\* ----------------------------------- TrainingWorker.run and TestWorker.run

\* model_dir_map of both workers
model_dir_map == {"EEGNet", "EEG-Inception", "Riemannian"}

Workers == {"TrainingWorker", "TestWorker"}

\* A line of the subprocess's output is a sequence of pieces: the marker
\* "JSON_RESULT:", a blank, the line end, a JSON text or any other text.
IsSpace(piece) == piece \in {" ", "\n"}

\* str.strip
RECURSIVE Strip(_)
Strip(line) ==
    IF line = <<>> THEN <<>>
    ELSE IF IsSpace(Head(line)) THEN Strip(Tail(line))
    ELSE IF IsSpace(line[Len(line)]) THEN Strip(SubSeq(line, 1, Len(line) - 1))
    ELSE line

\* stripped_line.startswith("JSON_RESULT:")
StartsWithMarker(line) == line # <<>> /\ Head(line) = "JSON_RESULT:"

\* stripped_line.replace("JSON_RESULT:", "").strip()
JsonStr(line) == Strip(SelectSeq(line, LAMBDA piece : piece # "JSON_RESULT:"))

\* json_result: None, or the text of the last marked line
NoResult == [some |-> FALSE, text |-> <<>>]

\* the truth value of json_result: None and "" are false
Truthy(res) == res.some /\ res.text # <<>>

\* json_result after the turn of the loop that reads `line`
Capture(res, line) ==
    IF StartsWithMarker(Strip(line))
    THEN [some |-> TRUE, text |-> JsonStr(Strip(line))]
    ELSE res

LineDraws ==
    {<<"epoch 1", "\n">>,
     <<"JSON_RESULT:", " ", "{acc}", "\n">>,
     <<"JSON_RESULT:", "\n">>,
     <<" ", "JSON_RESULT:", "{acc}", "\n">>,
     <<"epoch 1", " ", "JSON_RESULT:", "{acc}", "\n">>}

\* One run of a worker: the model name it was built with, which scripts
\* exist in the model's directory, whether Popen raises, the lines the
\* subprocess prints, whether reading its output raises after those lines,
\* and the return code.
WorkerInputs ==
    [worker : Workers,
     model_name : {"EEGNet", "Riemannian", "Unknown"},
     test_py : BOOLEAN,
     main_py : BOOLEAN,
     launch_raises : BOOLEAN,
     lines : UNION {[1..m -> LineDraws] : m \in 0..MaxLines},
     stream_raises : BOOLEAN,
     returncode : {0, 1}]

\* the script the worker runs: main.py for training; test.py for testing,
\* main.py when test.py does not exist
ScriptExists(inp) ==
    IF inp.worker = "TestWorker" /\ inp.test_py THEN TRUE ELSE inp.main_py

\* self.finished.emit()
EmitFinished(out) == [out EXCEPT !.finished = @ + 1]

\* the finally clause of run, entered on every exit from the try block
RunFinally(out) == EmitFinished(out)

InitWorker ==
    /\ LoadIdle
    /\ FilterIdle
    /\ u_pc = "model"
    /\ u_in \in WorkerInputs
    /\ u_out = [finished |-> 0, test_results |-> <<>>,
                left |-> Len(u_in.lines), json_result |-> NoResult]

\* model_dir = model_dir_map.get(self.model_name); an unknown name emits
\* finished and returns from inside the try block
RunCheckModel ==
    /\ u_pc = "model"
    /\ IF u_in.model_name \in model_dir_map
          THEN u_pc' = "script" /\ u_out' = u_out
          ELSE u_pc' = "returned" /\ u_out' = RunFinally(EmitFinished(u_out))
    /\ UNCHANGED <<u_in, loadVars, filterVars>>

\* os.path.exists of the script; a missing script emits finished and returns
\* from inside the try block
RunCheckScript ==
    /\ u_pc = "script"
    /\ IF ScriptExists(u_in)
          THEN u_pc' = "launch" /\ u_out' = u_out
          ELSE u_pc' = "returned" /\ u_out' = RunFinally(EmitFinished(u_out))
    /\ UNCHANGED <<u_in, loadVars, filterVars>>

\* subprocess.Popen; an exception goes to the except clause and the finally
RunLaunch ==
    /\ u_pc = "launch"
    /\ IF u_in.launch_raises
          THEN u_pc' = "returned" /\ u_out' = RunFinally(u_out)
          ELSE u_pc' = "stream" /\ u_out' = u_out
    /\ UNCHANGED <<u_in, loadVars, filterVars>>

\* one turn of `for line in process.stdout`: the line is logged, and the
\* test worker keeps the text of a line that starts with the marker
RunStreamLine ==
    /\ u_pc = "stream"
    /\ u_out.left > 0
    /\ LET line == u_in.lines[Len(u_in.lines) - u_out.left + 1]
       IN  u_out' = [u_out EXCEPT
                       !.left = @ - 1,
                       !.json_result =
                           IF u_in.worker = "TestWorker"
                           THEN Capture(@, line) ELSE @]
    /\ UNCHANGED <<u_pc, u_in, loadVars, filterVars>>

\* the end of the output: the read raises, or the loop ends
RunStreamEnd ==
    /\ u_pc = "stream"
    /\ u_out.left = 0
    /\ IF u_in.stream_raises
          THEN u_pc' = "returned" /\ u_out' = RunFinally(u_out)
          ELSE u_pc' = "wait" /\ u_out' = u_out
    /\ UNCHANGED <<u_in, loadVars, filterVars>>

\* process.wait(), the log by return code, test_results, then the finally
RunWait ==
    /\ u_pc = "wait"
    /\ u_pc' = "returned"
    /\ u_out' = RunFinally(
                   IF u_in.worker = "TestWorker" /\ u_in.returncode = 0
                      /\ Truthy(u_out.json_result)
                      THEN [u_out EXCEPT !.test_results =
                                           Append(@, u_out.json_result.text)]
                      ELSE u_out)
    /\ UNCHANGED <<u_in, loadVars, filterVars>>

NextWorker ==
    \/ RunCheckModel
    \/ RunCheckScript
    \/ RunLaunch
    \/ RunStreamLine
    \/ RunStreamEnd
    \/ RunWait

SpecWorker == InitWorker /\ [][NextWorker]_vars

\* ------------------------------------------------ ClassificationController

\* The QThread objects the controller creates, in the order of creation.
ThreadIds == 1..MaxStarts

\* the value None of the controller's `thread` and `worker` attributes
NoThread == 0

\* A thread's life: "unborn" before QThread(); "running" from thread.start()
\* while the worker's run executes; "done" once run has emitted `finished`
\* and thread.quit is pending; "finished" once the thread has left its event
\* loop and emitted QThread.finished, whose delivery to on_training_finished
\* is queued in the controller's event loop; "cleaned" once it is delivered.
ThreadStates == {"unborn", "running", "done", "finished", "cleaned"}

\* QThread.isRunning
isRunning(states, t) == states[t] \in {"running", "done"}

\* folder_path.replace('file:///', '').replace('file://', '').replace('/', '\\')
NormalisePath(path) ==
    CASE path = "file:///C:/data" -> "C:\\data"
      [] path = "C:/data" -> "C:\\data"
      [] OTHER -> path

FolderDraws == {"", "file:///C:/data", "C:/data"}

\* config_parser.get_analysis_key: the key of a display name, "" if unknown
get_analysis_key(display) ==
    CASE display = "ERP Analysis" -> "erp"
      [] display = "Spectral Analysis" -> "spectral"
      [] OTHER -> ""

StartSlots == {"startTraining", "startClassification", "testClassifier"}

\* the arguments of a start request; weights tells whether the weights file
\* exists
StartRequests ==
    [slot : StartSlots,
     classifier : {"", "EEGNet"},
     analysis : {"", "ERP Analysis", "Bogus"},
     weights : BOOLEAN]

\* the first test of the three slots
AlreadyRunning(states, ctl) ==
    ctl.thread # NoThread /\ isRunning(states, ctl.thread)

\* the validation each slot does after the first test
RequestValid(req, ctl) ==
    CASE req.slot = "startTraining" -> TRUE
      [] req.slot = "startClassification" ->
            get_analysis_key(req.analysis) # "" /\ ctl.data_folder # ""
      [] req.slot = "testClassifier" ->
            /\ req.classifier # ""
            /\ req.analysis # ""
            /\ req.weights
            /\ get_analysis_key(req.analysis) # ""
            /\ ctl.data_folder # ""

\* the worker class a slot builds
WorkerOf(slot) ==
    IF slot = "testClassifier" THEN "TestWorker" ELSE "TrainingWorker"

InitController ==
    /\ LoadIdle
    /\ FilterIdle
    /\ u_pc = [t \in ThreadIds |-> "unborn"]
    /\ u_in = [slot |-> "", outcome |-> "", kind |-> ""]
    /\ u_out = [thread |-> NoThread, worker |-> NoThread, data_folder |-> ""]

setDataFolder ==
    /\ \E path \in FolderDraws :
          u_out' = [u_out EXCEPT !.data_folder = NormalisePath(path)]
    /\ UNCHANGED <<u_pc, u_in, loadVars, filterVars>>

\* startTraining, startClassification and testClassifier: rejected while
\* self.thread is a running thread, dropped when the arguments do not
\* validate, else a new thread and worker are created, stored and started
StartRequest ==
    \E req \in StartRequests :
      /\ IF AlreadyRunning(u_pc, u_out)
            THEN /\ u_in' = [slot |-> req.slot, outcome |-> "rejected",
                             kind |-> u_in.kind]
                 /\ UNCHANGED <<u_pc, u_out>>
            ELSE IF ~RequestValid(req, u_out)
            THEN /\ u_in' = [slot |-> req.slot, outcome |-> "invalid",
                             kind |-> u_in.kind]
                 /\ UNCHANGED <<u_pc, u_out>>
            ELSE /\ \E t \in ThreadIds :
                       /\ u_pc[t] = "unborn"
                       /\ \A s \in ThreadIds : s < t => u_pc[s] # "unborn"
                       /\ u_out' = [u_out EXCEPT !.thread = t, !.worker = t]
                       /\ u_pc' = [u_pc EXCEPT ![t] = "running"]
                 /\ u_in' = [slot |-> req.slot, outcome |-> "started",
                             kind |-> WorkerOf(req.slot)]
      /\ UNCHANGED <<loadVars, filterVars>>

\* the worker's run returns: `finished` is emitted, thread.quit is pending
WorkerFinished ==
    /\ \E t \in ThreadIds :
          /\ u_pc[t] = "running"
          /\ u_pc' = [u_pc EXCEPT ![t] = "done"]
    /\ UNCHANGED <<u_in, u_out, loadVars, filterVars>>

\* thread.quit: the thread leaves its event loop, isRunning turns false and
\* QThread.finished is emitted towards the controller's event loop
ThreadQuit ==
    /\ \E t \in ThreadIds :
          /\ u_pc[t] = "done"
          /\ u_pc' = [u_pc EXCEPT ![t] = "finished"]
    /\ UNCHANGED <<u_in, u_out, loadVars, filterVars>>

\* the controller's event loop delivers a thread's finished notification
on_training_finished ==
    /\ \E t \in ThreadIds :
          /\ u_pc[t] = "finished"
          /\ u_pc' = [u_pc EXCEPT ![t] = "cleaned"]
    /\ u_out' = [u_out EXCEPT !.thread = NoThread, !.worker = NoThread]
    /\ UNCHANGED <<u_in, loadVars, filterVars>>

NextController ==
    \/ setDataFolder
    \/ StartRequest
    \/ WorkerFinished
    \/ ThreadQuit
    \/ on_training_finished

SpecController == InitController /\ [][NextController]_vars

\* ------------------------------------------------------------ properties

\* C1: the sample list and the four label lists have one length at every
\* step, so a sample is appended exactly when its four labels are; on a
\* normal return the leading dimension of the returned tensor is that length.
C1_ParallelLengths ==
    /\ Len(condition_labels) = Len(all_samples)
    /\ Len(group_labels) = Len(all_samples)
    /\ Len(subject_ids) = Len(all_samples)
    /\ Len(dataset_names) = Len(all_samples)
    /\ status = "returned" => IsArr(X) /\ X.shape[1] = Len(all_samples)

\* A normal return after pairs were kept and at least one was skipped.
C1_Witness ==
    status = "returned" /\ Len(all_samples) >= 2 /\ irregular >= 1

\* C2: outside the reconstruction loop of _load_mat_v73 (before it opened
\* the file and after it returned or raised) self._h5_file is None and no
\* handle is open.
C2_HandleClosed ==
    pc # "v73_convert" => h5_file = "None" /\ handle # "open"

\* _load_mat_v73 raised after it had rebuilt at least one element.
C2_Witness ==
    pc = "end" /\ status = "raised" /\ handle = "closed" /\ idx >= 1

\* C3 as stated: the reference-based reader is entered exactly when the
\* dense reader's error message carries the signature, whatever the class of
\* the error; every other dense-reader error propagates.
C3_SignatureAlone ==
    LET sig == dense_err.exc # "no"
               /\ (ContainsHDFReader(dense_err.msg) \/ LowerContainsMatlabV73(dense_err.msg))
    IN  /\ pc = "v73_open" <=> sig
        /\ (dense_err.exc # "no" /\ ~sig)
              => pc = "end" /\ status = "raised" /\ exc = dense_err.exc

\* C3, amended: the dense reader comes first (no handle exists before it
\* ran); the reference-based reader is entered exactly when the dense reader
\* raised a ValueError or NotImplementedError whose message carries the
\* signature; every other dense-reader error propagates with no handle opened.
C3_CaughtClassAndSignature ==
    LET sig == dense_err.exc \in {"ValueError", "NotImplementedError"}
               /\ (ContainsHDFReader(dense_err.msg) \/ LowerContainsMatlabV73(dense_err.msg))
    IN  /\ pc \in {"start", "loadmat"} => handle = "unopened"
        /\ pc = "v73_open" <=> sig
        /\ (dense_err.exc # "no" /\ ~sig)
              => pc = "end" /\ status = "raised" /\ exc = dense_err.exc
                 /\ handle = "unopened"
        /\ handle # "unopened" => loader # "dense"

\* The fallback taken on a ValueError recognised by the lower-cased test only.
C3_Witness ==
    pc = "v73_open" /\ dense_err.exc = "ValueError"
    /\ ~ContainsHDFReader(dense_err.msg)

\* C4: a call on a dense file of nsub well-formed records whose every pair
\* extracted regularly returns 3 * nsub samples, subject k three times in
\* order with condition indices 0, 1, 2.
C4_ThreePerSubject ==
    (pc = "end" /\ loader = "dense" /\ irregular = 0 /\ exc # "KeyError") =>
        /\ status = "returned"
        /\ Len(all_samples) = 3 * nsub
        /\ \A k \in 1..Len(subject_ids) :
              /\ subject_ids[k] \in 0..(nsub - 1)
              /\ subject_ids[k] = (k - 1) \div 3
              /\ condition_labels[k] = (k - 1) % 3

\* C5: the pair just extracted has the same outcome (kept with the same
\* sample, or skipped) from its dense encoding and from its reference
\* encoding.
C5_EncodingIndependence ==
    cur.kind # "none" =>
        ExtractPair(RecordFor("dense", conditions[cur.c], cur.content, analysis_type),
                    conditions[cur.c], analysis_type, target_model, TRUE)
        = ExtractPair(RecordFor("v73", conditions[cur.c], cur.content, analysis_type),
                      conditions[cur.c], analysis_type, target_model, TRUE)

\* C8: once a loader returned the mapping, the call raises exactly when no
\* sample was loaded, and then with the empty-dataset error.
C8_OnlyEmptyIsFatal ==
    (pc = "end" /\ loader # "none") =>
        /\ status = "raised" <=> Len(all_samples) = 0
        /\ status = "raised" => exc = "ValueError: No samples loaded"

\* C9 as stated: a pair that fails, whatever was raised, leaves the
\* accumulated lists unchanged and the loop goes on with the next condition
\* of the same subject (the next subject after the last condition).
C9_AnyFailureSkipsOnlyPair ==
    [][(pc = "pair" /\ cur'.kind \in {"skip", "continue", "abort"}) =>
          /\ UNCHANGED accVars
          /\ IF c < Len(conditions)
             THEN pc' = "pair" /\ i' = i /\ c' = c + 1
             ELSE pc' = "subject" /\ i' = i + 1]_vars

\* C9, amended: a pair that raises KeyError, ValueError, IndexError, TypeError
\* or AttributeError, or whose sample is empty, is the only pair skipped; a
\* pair that raises any other Exception also ends its subject's remaining
\* conditions, and the loop goes on with the next subject; in both cases the
\* accumulated lists are unchanged.
C9_CaughtFailureSkipsOnlyPair ==
    [][pc = "pair" =>
          /\ (cur'.exc \in {"KeyError", "ValueError", "IndexError", "TypeError",
                            "AttributeError"}
              \/ cur'.kind = "continue")
                => /\ UNCHANGED accVars
                   /\ IF c < Len(conditions)
                      THEN pc' = "pair" /\ i' = i /\ c' = c + 1
                      ELSE pc' = "subject" /\ i' = i + 1
          /\ (cur'.exc \notin {"no", "KeyError", "ValueError", "IndexError",
                               "TypeError", "AttributeError"})
                => UNCHANGED accVars /\ pc' = "subject" /\ i' = i + 1]_vars

\* The first pair of a subject failed with a caught exception and the second
\* pair of the same subject was then kept.
C9_Witness ==
    /\ cur.kind = "append" /\ cur.c = 2 /\ cur.i = 0
    /\ irregular >= 1 /\ Len(all_samples) = 1

\* C10: for the reader in use, a condition record whose primary field is
\* missing or empty yields the mean of `trial` over its leading axis when it
\* has `trial`, and is skipped only when it has none.
C10_TrialFallback ==
    (cur.content.kind = "struct" /\ cur.content.primary \in {"missing", "empty"}
     /\ cur.kind \in {"append", "skip", "continue"}) =>
        IF cur.content.trial
        THEN cur.kind = "append"
             /\ all_samples[Len(all_samples)] = Arr(<<2, 2>>, <<2, 3, 4, 5>>)
        ELSE cur.kind = "skip"

\* The class filter has one entry '<G>_<c>' whose group is a spelling of the
\* table and whose condition is known.
OneRecognisedClass ==
    /\ f_pc = "out"
    /\ Len(f_in.selected_classes) = 1
    /\ Len(f_in.selected_classes[1]) = 2
    /\ f_in.selected_classes[1][1] \in DOMAIN group_mapping
    /\ ConditionIndex(Lower(f_in.selected_classes[1][2])) # -1

\* C6: with such a filter the kept positions are exactly those of the
\* samples with the table's index of G and the index of c; kept_indices is
\* strictly increasing and the j-th returned sample and labels are the
\* inputs at kept_indices[j].
C6_FilterExact ==
    OneRecognisedClass =>
        LET G    == f_in.selected_classes[1][1]
            cidx == ConditionIndex(Lower(f_in.selected_classes[1][2]))
            kept == f_out.kept_indices
        IN  /\ \A k \in 1..Len(f_in.samples) :
                  (\E j \in 1..Len(kept) : kept[j] = k - 1)
                  <=> (/\ GroupIdxOf(f_in.group_labels[k]) = group_mapping[G]
                       /\ f_in.condition_labels[k] = cidx)
            /\ \A j \in 1..(Len(kept) - 1) : kept[j] < kept[j + 1]
            /\ Len(f_out.samples) = Len(kept)
            /\ Len(f_out.group_labels) = Len(kept)
            /\ Len(f_out.condition_labels) = Len(kept)
            /\ \A j \in 1..Len(kept) :
                  /\ kept[j] + 1 \in 1..Len(f_in.samples)
                  /\ f_out.samples[j] = f_in.samples[kept[j] + 1]
                  /\ f_out.group_labels[j] = f_in.group_labels[kept[j] + 1]
                  /\ f_out.condition_labels[j] = f_in.condition_labels[kept[j] + 1]

\* C7: every spelling of the table resolves to its index: a control
\* spelling keeps nothing but samples of group index 0, a Parkinson spelling
\* nothing but samples of group index 1, and every such sample of the
\* condition is kept.
C7_SpellingsResolved ==
    OneRecognisedClass =>
        LET G    == f_in.selected_classes[1][1]
            cidx == ConditionIndex(Lower(f_in.selected_classes[1][2]))
            want == IF G \in {"HC", "Hc", "hc", "CTL", "ctl"} THEN 0 ELSE 1
            n    == Cardinality({k \in 1..Len(f_in.samples) :
                                    /\ GroupIdxOf(f_in.group_labels[k]) = want
                                    /\ f_in.condition_labels[k] = cidx})
        IN  /\ Len(f_out.samples) = n
            /\ \A j \in 1..Len(f_out.group_labels) :
                  GroupIdxOf(f_out.group_labels[j]) = want

\* C11: in the batch the normaliser built, slot p holds sample p: the cell
\* at an index inside the sample's shape (extended with trailing size-1
\* axes) is the sample's cell at that index, every other cell of the slot
\* is 0, and the batch has one slot per sample.
C11_ValuesPreserved ==
    u_pc \in {"stacked", "out", "raised_transform"} =>
        LET B    == u_out.batch
            slot == Tail(B.shape)
            w    == Prod(slot)
        IN  /\ Head(B.shape) = Len(u_in.samples)
            /\ Len(B.data) = Len(u_in.samples) * w
            /\ \A p \in 1..Len(u_in.samples) :
                  LET smp == u_in.samples[p]
                      r   == Ndim(smp)
                  IN  \A k \in 1..w :
                        LET m      == Unravel(k - 1, slot)
                            inside == /\ \A d \in 1..r : m[d] < smp.shape[d]
                                      /\ \A d \in (r + 1)..Len(slot) : m[d] = 0
                        IN  B.data[(p - 1) * w + k]
                              = IF inside
                                THEN smp.data[Ravel(SubSeq(m, 1, r), smp.shape) + 1]
                                ELSE 0

\* A batch built from two samples of different ranks, both of them padded.
C11_Witness ==
    /\ u_pc = "stacked"
    /\ Len(u_in.samples) = 2
    /\ u_in.samples[1].shape = <<3>>
    /\ u_in.samples[2].shape = <<2, 2>>

\* C12: for every non-empty list of samples the normaliser yields a batch of
\* shape (n, m_1, ..., m_r): n samples, r the largest rank, m_d the largest
\* extent along axis d once lower-rank samples have trailing size-1 axes.
C12_BatchShape ==
    u_pc # "in" =>
        LET n == Len(u_in.samples)
            r == MaxOf([p \in 1..n |-> Ndim(u_in.samples[p])])
            ext(p, d) == IF d <= Ndim(u_in.samples[p])
                         THEN u_in.samples[p].shape[d] ELSE 1
        IN  /\ u_pc # "raised"
            /\ u_out.batch.shape
                 = <<n>> \o [d \in 1..r |-> MaxOf([p \in 1..n |-> ext(p, d)])]

\* C13 as stated: _apply_transform returns a tensor with shape[0] unchanged
\* for every pair of analysis kind and target architecture and every batch.
C13_TotalOnAllPairs ==
    u_pc \in {"out", "raised_transform"} =>
        /\ u_out.raised = "no"
        /\ IsArr(u_out.value)
        /\ Head(u_out.value.shape) = Head(u_out.batch.shape)

\* C13, amended: _apply_transform raises ValueError for erp with eeg_net or
\* eeg_inception when the batch has rank below 3; for every other pair and
\* batch it returns a tensor of the same cells with shape[0] unchanged.
C13_TotalButErpRank ==
    u_pc \in {"out", "raised_transform"} =>
        IF /\ u_in.analysis_type = "erp"
           /\ u_in.target_model \in {"eeg_net", "eeg_inception"}
           /\ Ndim(u_out.batch) < 3
        THEN u_out.raised = "ValueError"
        ELSE /\ u_out.raised = "no"
             /\ IsArr(u_out.value)
             /\ Head(u_out.value.shape) = Head(u_out.batch.shape)
             /\ u_out.value.data = u_out.batch.data

\* An ERP batch of rank 4 reshaped for eeg_net.
C13_Witness ==
    /\ u_pc = "out"
    /\ u_in.analysis_type = "erp"
    /\ u_in.target_model = "eeg_net"
    /\ Ndim(u_out.batch) = 4
    /\ Ndim(u_out.value) = 4
    /\ u_out.value.shape # u_out.batch.shape

\* C14: the remapped labels of a driver are the combined labels taken
\* through a strictly increasing map onto 0..k-1, k the number of distinct
\* combined labels: the order of any two samples' labels is kept (so equal
\* labels stay equal and different ones stay different), every sample has a
\* remapped label and the values used are exactly 0..k-1.
C14_RemapBijection ==
    u_pc = "out" =>
        LET cl == u_out.combined
            rm == u_out.remapped
            k  == Cardinality({cl[a] : a \in 1..Len(cl)})
        IN  /\ Len(rm) = Len(cl)
            /\ {rm[a] : a \in 1..Len(rm)} = 0..(k - 1)
            /\ \A a, b \in 1..Len(cl) : (cl[a] < cl[b]) <=> (rm[a] < rm[b])

\* Three samples with three distinct combined labels, not in increasing
\* order, one of them with the unmapped group.
C14_Witness ==
    /\ u_pc = "out"
    /\ Len(u_out.combined) = 3
    /\ u_out.combined[1] > u_out.combined[2]
    /\ u_out.combined[3] < 0
    /\ Cardinality({u_out.remapped[a] : a \in 1..3}) = 3

\* The end-to-end case: a reference-encoded erp container of two subjects
\* with groups [HC, PD], every pair well-formed, and the call returned.
EndToEndCase ==
    /\ pc = "end" /\ status = "returned"
    /\ loader = "v73"
    /\ analysis_type = "erp"
    /\ nsub = 2
    /\ group_list = <<"HC", "PD">>
    /\ irregular = 0

\* C15: in the end-to-end case extraction emits 6 samples, subject 0's
\* target, standard, novelty and then subject 1's, the combined labels
\* group * 3 + condition are 0..5 in that order, and the batch before
\* _apply_transform has shape (6,) + the shape of one condition's array.
C15_EndToEnd ==
    EndToEndCase =>
        /\ Len(all_samples) = 6
        /\ subject_ids = <<0, 0, 0, 1, 1, 1>>
        /\ condition_labels = <<0, 1, 2, 0, 1, 2>>
        /\ [k \in 1..6 |-> group_labels[k] * 3 + condition_labels[k]]
             = <<0, 1, 2, 3, 4, 5>>
        /\ \A k \in 1..6 : all_samples[k] = PrimaryData("erp")
        /\ NormalizeAndStack(all_samples).value.shape
             = <<6>> \o PrimaryData("erp").shape

\* The end-to-end case for the eeg_net architecture.
C15_Witness == EndToEndCase /\ target_model = "eeg_net"

\* C16: every sample of subject i carries 0 when the subject's group name is
\* a control spelling, 1 when it is a Parkinson spelling, in any letter case,
\* and -1 when the name is unrecognised or the list has no name for i.
C16_GroupIndex ==
    \A k \in 1..Len(group_labels) :
        LET subj == subject_ids[k]
            name == IF subj + 1 \in DOMAIN group_list
                    THEN Upper(group_list[subj + 1]) ELSE "(none)"
        IN  group_labels[k]
              = CASE name \in {"HC", "CTL"} -> 0
                  [] name \in {"P", "PD", "PARKINSON", "PARKINSONS", "PARKINSON'S"} -> 1
                  [] OTHER -> -1

\* C17: for each analysis kind the record array is read from the kind's own
\* top-level key when the container has it and from 'data' otherwise, and the
\* primary field is the one the table gives; the encoding and the target
\* architecture have no part in the choice.
C17_KeyAndField ==
    u_pc = "keyed" =>
        LET Table == [erp |-> <<"ERP_data", "avg">>,
                      time_frequency |-> <<"timefreq_data", "powspctrm">>,
                      spectral |-> <<"spectral_data", "fourierspctrm">>,
                      connectivity |-> <<"coherence_data", "cohspctrm">>,
                      intertrial_coherence |-> <<"itc_data", "itpc">>]
            row == Table[u_in.analysis_type]
        IN  /\ u_out.struct_key
                 = (IF row[1] \in u_in.names THEN row[1] ELSE "data")
            /\ u_out.data_field = row[2]

C17_Witness ==
    /\ u_pc = "keyed"
    /\ u_in.loader = "v73"
    /\ u_in.analysis_type = "connectivity"
    /\ u_in.target_model = "riemannian"
    /\ u_in.names = {"ERP_data", "data"}
    /\ u_out.struct_key = "data"
    /\ u_out.data_field = "cohspctrm"
    /\ u_out.raised = "no"

\* C18: a record rebuilt from a group holds a child only under a name of the
\* allowlist; a child of any other name, dataset or group, never appears in
\* the record.
C18_OnlyAllowlisted ==
    u_pc \in {"converted", "iterated"} =>
        \A j \in 1..Len(u_out.value.data) :
            \A name \in DOMAIN u_out.value.data[j].fields :
                LET v == u_out.value.data[j].fields[name]
                IN  v.tag = "MatlabStructElement"
                        => DOMAIN v.fields \subseteq data_fields

\* C19: the reconstruction ends with at most two nested calls below the
\* struct-array loop, whatever the handles of the file refer to, a chain or
\* a cycle of single-reference datasets included.
C19_DepthAtMostTwo ==
    u_pc # "in" => /\ u_out.raised # "RecursionError"
                   /\ u_out.depth <= 2

\* C20: from a top-level group whose fields are tables of n handles, 1xn or
\* nx1, the reconstruction returns exactly n records, record i holding for
\* every field what that field's i-th handle leads to, and load_and_transform
\* then counts n subjects and reads the indices 0 .. n-1.
C20_OneRecordPerHandle ==
    /\ u_pc \in {"converted", "iterated"} =>
          /\ u_out.value.tag = "ndarray"
          /\ u_out.value.shape = <<u_in.n>>
          /\ Len(u_out.value.data) = u_in.n
          /\ \A j \in 1..u_in.n :
               /\ DOMAIN u_out.value.data[j].fields
                    = {ConvFieldNames[f] : f \in 1..Len(ConvFieldNames)}
               /\ \A f \in 1..Len(ConvFieldNames) :
                    LET v == u_out.value.data[j].fields[ConvFieldNames[f]]
                    IN  (IF v.tag = "ndarray" THEN v ELSE v.fields["avg"])
                          = Arr(<<1>>, <<10 * f + (j - 1)>>)
    /\ u_pc = "iterated" =>
          /\ u_out.num_subjects = u_in.n
          /\ u_out.positions = [j \in 1..u_in.n |-> j - 1]

C20_Witness ==
    /\ u_pc = "iterated"
    /\ u_in.n = MaxSubjects
    /\ u_in.orient = <<"col", "row">>
    /\ \A j \in 1..u_in.n : u_in.draws[j] = "cond"
    /\ u_out.num_subjects = MaxSubjects
    /\ Len(u_out.value.data) = MaxSubjects

\* C21: a spectral sample of rank 3 or 4 after squeezing is emitted as its
\* mean over the leading axis, one rank lower, whatever the record's
\* dimension-order string is; one of rank 2 or less is emitted with its
\* values (non-finite cells aside, which become 0).
C21_SpectralLeadingMean ==
    (u_pc = "out" /\ u_in.analysis_type = "spectral" /\ Prod(u_in.shape) > 0) =>
        LET sq == Squeeze(PairArray(u_in.shape, u_in.fill))
            Zeroed(x) == IF x \in {NaN, PosInf, NegInf} THEN 0 ELSE x
        IN  /\ u_out.kind = "append"
            /\ IF Len(sq.shape) \in {3, 4}
               THEN /\ u_out.sample.shape = Tail(sq.shape)
                    /\ u_in.fill = "finite" =>
                         \A k \in 1..Prod(Tail(sq.shape)) :
                            2 * u_out.sample.data[k]
                              = sq.data[k] + sq.data[Prod(Tail(sq.shape)) + k]
               ELSE /\ u_out.sample.shape = sq.shape
                    /\ \A k \in 1..Len(sq.data) :
                          u_out.sample.data[k] = Zeroed(sq.data[k])

\* C22: an emitted sample is non-empty and has no NaN and no infinity; where
\* the kind takes no mean, every NaN, +Inf and -Inf cell of the squeezed
\* primary array is 0 in the sample and every finite cell is unchanged; an
\* empty sample is never appended.
C22_FiniteNonEmpty ==
    u_pc = "out" =>
        LET sq == Squeeze(PairArray(u_in.shape, u_in.fill))
            reduced ==
                \/ u_in.analysis_type = "spectral" /\ Len(sq.shape) \in {3, 4}
                \/ /\ u_in.analysis_type = "connectivity"
                   /\ u_in.target_model = "riemannian"
                   /\ Len(sq.shape) = 4
        IN  /\ Prod(u_in.shape) = 0 => u_out.kind # "append"
            /\ u_out.kind = "append" =>
                 /\ Prod(u_out.sample.shape) > 0
                 /\ \A k \in 1..Len(u_out.sample.data) :
                       u_out.sample.data[k] \notin {9001, 9002, 9003}
                 /\ ~reduced =>
                      /\ u_out.sample.shape = sq.shape
                      /\ \A k \in 1..Len(sq.data) :
                            u_out.sample.data[k]
                              = (IF sq.data[k] \in {9001, 9002, 9003}
                                 THEN 0 ELSE sq.data[k])

C22_Witness ==
    /\ u_pc = "out"
    /\ u_in.analysis_type = "erp"
    /\ u_in.loader = "v73"
    /\ u_in.shape = <<2, 2>>
    /\ u_in.fill = "inf"
    /\ u_out.kind = "append"
    /\ u_out.sample = Arr(<<2, 2>>, <<0, 24, 36, 0>>)

\* C23: the file one call opened is dereferenced through and closed only by
\* that call, under any interleaving of two calls on one instance, and once
\* both calls are over every file was closed exactly once.
C23_HandleOwnedByCall ==
    /\ \A h \in Calls :
          /\ u_out.files[h].used_by \subseteq {h}
          /\ u_out.files[h].closed_by \subseteq {h}
    /\ (\A cl \in Calls : u_pc[cl] \in {"done", "raised"}) =>
          \A h \in Calls : u_out.files[h].closes = 1

\* C24: after a driver's class-filter step group, condition, subject_id and
\* dataset_name have the length of X and entry j of each is that of the
\* loaded sample X[j] is; when the filter keeps no sample, X and the labels
\* are as loaded.
C24_BundleAligned ==
    u_pc = "out" =>
        /\ \A key \in {"group", "condition", "subject_id", "dataset_name"} :
              Len(u_out.y[key]) = Len(u_out.X)
        /\ \A j \in 1..Len(u_out.X) :
              LET o == u_out.X[j] - 100
              IN  /\ u_out.y.group[j] = u_in.groups[o]
                  /\ u_out.y.condition[j] = u_in.conditions[o]
                  /\ u_out.y.subject_id[j] = o - 1
                  /\ j \in DOMAIN u_out.y.dataset_name
                  /\ u_out.y.dataset_name[j] = <<"S", o - 1>>
        /\ Len(filter_by_selected_classes(
                   LoadedX(u_in),
                   [k \in 1..Len(u_in.groups) |-> IntLabel(u_in.groups[k])],
                   u_in.conditions, u_in.selected_classes).samples) = 0
             => (u_out.X = LoadedX(u_in) /\ u_out.y = LoadedY(u_in))

\* C25: the slot answers success with the shape of the loaded tensor
\* whenever the bridge is there and its load_and_transform returned, and an
\* error only when the call raised or there is no bridge.
C25_SuccessWhenLoaded ==
    u_pc = "out" =>
        /\ u_out.success <=> (u_in.has_bridge /\ u_in.call.raised = "no")
        /\ u_out.success => u_out.shape = u_in.call.value.items[1].shape

\* C26: class-filter entries whose group name is not in the group-name table
\* keep no sample: when every entry that parses names such a group, nothing
\* is kept, the samples of group index -1 included.
C26_UnknownGroupKeepsNothing ==
    LET sel == f_in.selected_classes
        Parses(cs) == Len(cs) >= 2 /\ ConditionIndex(Lower(cs[Len(cs)])) # -1
        Known(cs) == Len(cs) = 2 /\ cs[1] \in DOMAIN group_mapping
    IN  (/\ f_pc = "out"
         /\ \E k \in 1..Len(sel) : Parses(sel[k])
         /\ \A k \in 1..Len(sel) : Parses(sel[k]) => ~Known(sel[k]))
        => f_out.samples = <<>>

\* C27 as stated: the inputs come back unchanged with kept_indices 0..n-1
\* exactly when the selected-class list is empty or none of its entries
\* parses to a group and a known condition.
C27_UnchangedExactlyWhen ==
    f_pc = "out" =>
        LET sel == f_in.selected_classes
            Parses(cs) == Len(cs) >= 2 /\ ConditionIndex(Lower(cs[Len(cs)])) # -1
        IN  (f_out = FilterResult(f_in.samples, f_in.group_labels,
                                  f_in.condition_labels,
                                  [k \in 1..Len(f_in.samples) |-> k - 1]))
            <=> (~ \E k \in 1..Len(sel) : Parses(sel[k]))

\* C27, amended: the inputs come back unchanged with kept_indices 0..n-1
\* whenever the list is empty or none of its entries parses; when at least
\* one entry parses, the result is that of the list without its unparseable
\* entries.
C27_UnparseableIgnored ==
    f_pc = "out" =>
        LET sel == f_in.selected_classes
            Parses(cs) == Len(cs) >= 2 /\ ConditionIndex(Lower(cs[Len(cs)])) # -1
            good == SelectSeq(sel, Parses)
        IN  IF good = <<>>
            THEN f_out = FilterResult(f_in.samples, f_in.group_labels,
                                      f_in.condition_labels,
                                      [k \in 1..Len(f_in.samples) |-> k - 1])
            ELSE /\ f_out = filter_by_selected_classes(
                                f_in.samples, f_in.group_labels,
                                f_in.condition_labels, good)
                 /\ \A j \in 1..Len(f_out.kept_indices) :
                       \E k \in 1..Len(good) :
                          f_in.condition_labels[f_out.kept_indices[j] + 1]
                            = ConditionIndex(Lower(good[k][Len(good[k])]))

C27_Witness ==
    /\ f_pc = "out"
    /\ f_in.selected_classes = <<<<"PD", "rest">>, <<"P", "target">>>>
    /\ Len(f_in.samples) = 2
    /\ f_out.kept_indices = <<1>>

\* C28: every combined label group * 3 + condition the EEG-Inception and
\* Riemannian drivers compute lies in 0..5, and the entry of the six class
\* names at it names the sample's own group and condition, samples of the
\* unmapped group -1 included.
C28_CombinedLabelInRange ==
    (u_pc = "out" /\ u_in.driver \in {"EEG-Inception", "Riemannian"}) =>
        \A k \in 1..Len(u_out.combined) :
            LET own == [g \in {0, 1} |->
                          IF g = 0
                          THEN <<"HC-target", "HC-standard", "HC-novelty">>
                          ELSE <<"PD-target", "PD-standard", "PD-novelty">>]
            IN  /\ u_out.combined[k] \in 0..5
                /\ u_in.groups[k] \in {0, 1}
                /\ ListIndex(all_class_names, u_out.combined[k]).value
                     = own[u_in.groups[k]][u_in.conditions[k] + 1]

\* C29: when TrainingWorker.run or TestWorker.run has returned, on whatever
\* path (unknown model, missing script, exit code 0, non-zero exit code,
\* exception while launching or streaming), `finished` was emitted exactly
\* once.
C29_FinishedOnce ==
    u_pc = "returned" => u_out.finished = 1

\* C30: under any interleaving of start requests and thread-finished
\* notifications, at most one worker is running, and while a worker is
\* running the controller's `thread` and `worker` attributes are not None
\* and refer to that worker and its thread.
C30_OneWorkerOwned ==
    /\ Cardinality({t \in ThreadIds : u_pc[t] = "running"}) <= 1
    /\ \A t \in ThreadIds :
          u_pc[t] = "running" => (u_out.thread = t /\ u_out.worker = t)

============================================================================
